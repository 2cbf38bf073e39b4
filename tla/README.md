# Verification of the moving-rentals backend

This directory models the backend of a vehicle rental (NestJS on serverless
instances, MongoDB) in TLA+. The modules are checked with TLC on small
instances, and what matters most is proved with TLAPS for any instance.
Paths in this file are relative to `src/src/`.

## 1. The system and its hard parts

Every HTTP request is a handler: an `async` method of a service that awaits one
read or one write of one MongoDB document after the other. Each await lets the
handlers of other requests act, in the same Node.js process or in another
serverless instance. Only `contract.repository.ts` opens transactions. There are
no locks; a handler usually reads a document, changes the copy and writes the
whole copy back. That, and the many writes of one operation of which some may
not happen, is where the difficulty lies.

| Component | State | Operations | Works with | What makes it correct |
|---|---|---|---|---|
| booking (`booking/`) | the booking documents: number, cart, status, payments, totalPaid, isReserve, isValidated | create, two kinds of manual creation, update, validate, confirm, cancel, search, export | vehicles, contracts, commissions, notifications, users, catalogs | distinct numbers; one status at a time, shared with the contract; the money fields agree with the status |
| vehicle (`vehicle/`) | the vehicle documents with their `reservations` array, soft deletion | create, update, delete, bulk prices, search by date | booking and contract write its reservations | no overlapping reservations of two bookings; reservations and carts agree |
| contract (`contract/`) | contract, its status, history entries, snapshots of carts | create, update with a new cart, extension, soft delete and restore of history entries, migrations | writes the booking's cart and the reservations in a transaction; links movements | the booking's cart and the reservations are what the surviving history says |
| payments (`payments/`) | none of its own | create a Stripe session, webhook | writes the booking | a payment is counted once |
| notification (`notification/`) | `sentEmails` per process | mails on events, eleven templates about bookings | called through the event emitter | the mails tell customer and staff what happened, once, with sums that add up |
| commission (`commission/`) | commissions of owners and concierges | create, recalculate, set by hand, delete, pay, list | bookings and extensions make and change them | once per booking; the agreed share; what staff set or deleted stays so |
| cart (`cart/`) | one cart per user | update, replace | input of bookings | vehicles with dates |
| promotional-price (`promotional-price/`) | periods with prices per model | create, update, delete, search by date | shown with each vehicle | periods of one model do not overlap |
| movement (`movement/`) | income and expense of vehicles | create, update, delete, restore, list | linked to history entries; read by the metrics | linked entry and movement exist together; every view comes to the same sum |
| metrics (`metrics/`) | `vehicleCache` per process | dashboard, owners' statements and workbook | reads everything, through queries of its own | a period's money is counted once, the same in every widget; owners' shares add up; a closed month stays |
| user, auth | accounts with their list of bookings, tokens | register, log in, update, delete | bookings hang on a user | an email is of one user; a booking and its user find each other |
| vehicleowner, catalogs, tour, ticket, transfer, address, branches, company, faq, choosing, businessconfig, price, exchange-rate, document, imagekit, core, config | single documents, or files | create, read, update, delete | | plain records, input and output, wiring |

The hard behaviours, all of which are rows of `hazards` in `PROJECT.json`:

* check-then-act across awaits: availability of a vehicle and its reservation,
  existence of commissions and their creation, greatest number and insert;
* stale copies that are written back: the reservations array on release, the
  whole booking on validation, confirmation and cancellation;
* partial failure: a deleted vehicle in the release loop, a deleted user after
  the write, an error or time limit between two awaits;
* repeated and racing calls: the return from Stripe, the webhook of Stripe and
  staff may validate the same booking;
* several writers with different rules for one array: booking service, booking
  repository, contract repository, vehicle editor and price import;
* several readers with queries of their own for one number: the widgets of the
  dashboard, the owners' statements, the workbook, the lists and the templates each
  decide by themselves what counts, from records that go on changing;
* work that goes on behind an answer: mails are made by handlers that nobody waits
  for, from objects that the service still changes, and are lost with their process.

## 2. The modules

```
BookingNumber        <- MCBookingNumber, Booking_proofs
RentalCalendar       (abstract)
VehicleReservations  -> INSTANCE RentalCalendar
                     <- MCVehicleReservations, VehicleReservations_proofs
BookingLifecycle     <- MCBookingLifecycle, Booking_proofs
ContractTimeline     <- MCContractTimeline, ContractTimeline_proofs
PromotionalPrices    <- PromotionalPrices_proofs
Accounts             <- Accounts_proofs
BookingEmails        <- BookingEmails_proofs
MCBackOffice         -> INSTANCE VehicleCache, Dashboard, BookingEmails, Commissions,
                        PromotionalPrices, Accounts, Pages, Searches, OwnerIncome,
                        MailTexts, Expenses (three of them through their proof modules)
                     <- BackOffice_proofs <- BackOfficeViews_proofs
```

**BookingNumber** is the pre-save hook of `booking.schema.ts` and the unique
index. `AssignNumber` is the hook (read the maximum, take the next number),
`Insert` and `DuplicateKey` are the two outcomes of the insert, and `Resubmit`
is a client that repeats a failed request. `Existing` may hold numbers below the
series that starts at 7300.

**RentalCalendar** is the promise to a customer: a booking is opened in one step,
with all its vehicles, when they are free, and is cancelled once.

**VehicleReservations** keeps the two records of the truth: the `reservations`
array of each vehicle (with the order of its entries, on which `findIndex`
depends) and status and cart of each booking. A member of `Requests` is a running
handler; `request[r]` holds the stage it has reached (the await it is at), the
cart it works on, the vehicles still to do, and the copy it holds between a read
and a write. One action is one await and what follows it:

| Code | Actions |
|---|---|
| `BookingService.create`, `addManualBookingInUserFromCart`, `addManualBookingInUser` | `StartCreate`, `CheckVehicle` / `RefuseVehicle` (one vehicle each), `SaveBooking` / `SaveBookingUserGone`, `PushReservation` (one vehicle each) |
| step 8.5 of `addManualBookingInUserFromCart` | `RereadVehicle`, `RewriteVehicle` |
| `cancelBooking`, `update` to CANCELADO | `StartCancel`, `ReadForRelease`, `WriteReleased`, `FinishCancel` |
| `update` with a cart | `EditBookingCart` |
| `ContractRepository.update` with a `newCart` (a transaction) | `ChangeContractCart` |
| `VehicleService.update`, `bulkUpdatePricesFromExcel`, `delete` | `EditVehicle`, `UpdatePrices`, `DeleteVehicle` |
| an error or time limit between two awaits | `Abort` |

`Operations` selects the clients and the faults of an instance, so one module
serves every run. What is abstracted: the vehicles of a cart are processed in any
order (the code follows the cart's); a cart names a vehicle once; carts hold
vehicle objects, as the web client sends them; prices, passengers, tours and
tickets are left out. The dates of a cart are periods with start before end.

**BookingLifecycle** follows one booking after its creation. The state is what the
handlers change: `booking` (status, isReserve, isValidated, totalPaid, and how
often each amount is among the payments), the contract's status, the number of
times commissions were created, the kinds of mail sent, and whether the
deduplication window is open. A request holds the booking as it was read and the
copy that will be written. `Validated` is what `validateBooking` computes from the
copy (`Decision`, `PayBooking`, `Registered`); the stages are the awaits after it:

```
validate: write - contract - (reset) - mail - check - create
confirm:  write - mail - check - create      (create at once with a concierge)
cancel:   write - mail - clear
webhook:  write
```

`FindUserFails` is the exception of `findUserByBookingId`, at the stages where each
handler calls it; `WindowPasses` is the end of the window or another server
instance. What is abstracted: the amounts are a deposit, the rest and the total;
payments that come as an array are treated like an initial and a final one; the
commissions of one handler are one step; the vehicles of a cancellation are the
subject of VehicleReservations.

**ContractTimeline** is one contract: its history (never shortened: deletion is a
mark), the booking's cart and its three money fields, the versions of the cart, the
snapshots of contract.repository.ts, the reservations that the vehicles have for this
booking, the commissions of extensions and the movements of the cash book.

| Code | Actions |
|---|---|
| `ContractService.create` | `CreateContract` |
| `ContractRepository.update` (a transaction) | `Update`, of `Charged`, `DateEdits`, `UpdateVehicleReservations` |
| `reportEvent`, `createLinkedMovementAndHistory`, the fallback | `ReportEvent` |
| `softDeleteHistoryEntry`, `deleteHistoryWithMovement` | `StartDelete`, `Cascade` (each entry that falls with it), `Restore`, `Mark`, `Unlink`; `Abort` between any two |
| `restoreCartFromSnapshot` (a transaction) | `RestoreCart` / `RestoreFails`, with `OldCart` for its four sources of a cart |
| `MovementRepository.softDelete`, `restore` | `DeleteMovement`, `RestoreMovement` |
| `restoreHistoryEntry` | `RestoreEntry` |

A request body is one of `Updates` or `Reports`, records of which parts are there.
What is abstracted: dates are members of a set, and an entry carries the cart that its
request set (`sets`), which the code does not store and only the properties read.
`past` collects what has happened, since several properties hold only if something
never did; the conditions name the behaviour that breaks them. So `"owed"` is that the
booking owed something after a request, or had more taken off than was paid, for which
the code stops at zero, and `"charge deleted"` that an entry went which the code deletes
without giving its amount back.

**OwnerIncome** is what the owner of a vehicle is told of a month, for one rental.
`booking`, `timeline` and `snapshots` are what the report reads, changed as their
services change them; the report is a set of operators, each a step of
`getVehicleFinancialDetails`.

| Code | Definitions |
|---|---|
| `validateBooking`, `cancelBooking` | `Deposit`, `Approve`, `Cancel` |
| `ContractRepository.update`: extension, change, extra hours, silent edit | `Extend`, `Change`, `Charge`, `Edit` |
| `softDeleteHistoryEntry` | `Undo`, `SnapshotsWithout` |
| item of a vehicle in the cart or a snapshot | `BaseItem`, `Removed`, `TookPart` |
| amounts of the period, and the dates if an extension is outside it | `Adjustments`, `VehicleTotal`, `OriginalEnd` |
| `calculateVehicleProportionFromChanges` | `Moves`, `Use` (`UseOfRemoved`, `UseOfAdded`), `Used`, `OutOf` |
| transactions and income of the period | `Parts`, `PaidIn`, `Income` |
| `exportOwnerReport` | `RowsTotal` |

**Dashboard** is the income side of `metrics.repository.ts`: the card
(`TotalIncome`), the card of a category (`FilteredIncome`), methods, media and
transactions (`MethodRevenue`, `MediumRevenue`, `TransactionIncome`), categories
(`CategoryRevenue` of `RentalRevenue` and `TourRevenue`), `PopularVehicles`,
`Utilization`, and the two methods that compute the periods (`Current`, `Previous`).
Its actions are the clock, bookings that are made, validated with a list of payments or
an amount (`ApproveList`, `ApproveAmount`) and cancelled, and changes of the catalogue.

**VehicleCache** is `vehicleCache` with its timeouts: a widget takes what the cache has
(`Start`), awaits the rest, and fills the cache (`Fill`), each entry with a timer.

**BookingEmails** follows the events of one booking to the customer's inbox. A job is a
handler; its steps are the awaits of the event controller and the two services.

| Code | Actions |
|---|---|
| `create`, `addManualBookingInUserFromCart`, `validateBooking`, `confirmReservation`, `cancelBooking` up to `emit` | `Request`, `Purchase`, `Validate`, `Confirm`, `Cancel` and, after the emit, `ResetPaid` |
| `NotificationEventsController` | `ReadContract` |
| `sendBookingCreated` and the like, `enrichBookingCart`, the choice of a template | `Repeated`, `Template`, `RowPrice`, `Render` |
| `sendEmailWithBrevo` of the user's and the business's provider | `Send` and `Tell`, of `Deliver`, `AfterSuccess`, `AfterFailure` |
| a new instance of the serverless function | `Restart` |

**MailTexts** is what the eleven templates tell, as sets of facts: one operator for
what each template says (`Confirmation`, `PendingEn`, `StaffNew`, ...) and one for the
rows of its cart, each from its own copy of that code. The actions are those that change
the cart, the sums or the catalogue the rows are filled in from.

**Commissions** has the commissions of one booking: made by `Purchase`, `Approve`,
`Confirm` and `Extend`, recalculated by `Edit` (`updateByBookingNumber` is `Updated`),
set by hand, deleted in two steps (`DeleteOne` or `DeleteAll`, then `Assign` or
`AssignFails`), and listed by `findAllByOwner` (`Shown`, `Listed`).

**PromotionalPrices** has a create and an update of two steps each, `CheckCreate` and
`WriteNew`, `CheckUpdate` and `WriteUpdate`; `raced` and `loose` record for the
properties which promotions were checked before others were written, or not at all.

**Accounts** has registration (`CheckEmail`, `Register`, `RegisterFails`), update
(`ReadUser`, `WriteUser`), deletion, and `SaveBooking`, which pushes a booking to its user.

**Pages** is a reader of one of five lists, with `ReadIds`, `ReadTotal`, `ReadRows` and
`Turn` between additions, deletions and renamings by others; `Place` is how many records come
before one, which is where it is in the `Sorted` list. **Searches** compares the
two searches (`BookingsFound`, `ContractsFound`, `FoundByVehicle`).

**Expenses** has movements and commissions and the four places that add them up: the
dashboard's card (`Card`, `CardOf`), its list (`ListedMovements`, `ListedCommissions`),
the rows by vehicle (`Rows`, `RowsOf`) and the owner's statement (`Statement`).

**MCBackOffice** instantiates the last eleven. They share no state in the code, so in each
behaviour one of them runs (`part`); they take turns with the variables `x1` to `x12`,
and one property for each part is the conjunction of the properties of its module. Its
constants are those of the parts, with names of their own where two parts differ.

Names that start with `Mutant` are deliberate mistakes, at least one for each property of
each passing run and one for nearly every conjunct; they are used by no specification.

## 3. What is checked

Bounds: `MaxChanges` (how often staff changes carts and vehicles) and `MaxCalls`
(how many handlers run in all) bound the behaviours; `Times` is a set of a few
moments. Two moments give one period, three give overlapping, adjacent and nested
periods, four give also disjoint ones with a gap and one-sided overlap at both
ends. The unit of time is five minutes, so `ReleaseTolerance = 1` and
`EditTolerance = 0` (one minute). Two handlers are the smallest number that
interleave, two vehicles the smallest for which a loop can stop half way, two
bookings the smallest that compete. Every hazard listed needs no more than that.
Deadlock is not an error: an instance may stop when its calls are used up.

Runs that pass:

| Run | Instance | Shows |
|---|---|---|
| `booking_number` | 4 saves | `NumberTypeOK`, `DistinctNumbers`, `NoGap`; `FailureMeansProgress`: a refusal means that another save got that number; `SomeSaveSucceeds` (liveness): contention cannot make them all fail |
| `reservations_serial` | 2 vehicles, 2 bookings, 4 moments, one handler at a time, all ways to create and cancel that check | `NoDoubleBooking`, `CartVehiclesReserved`, `CancelledHoldsNothing`, `ReleaseSparesOthers`, and `ImplementsCalendar`: the module implements RentalCalendar |
| `reservations_atomic` | web bookings and contract changes, two handlers | `CartVehiclesReserved`, `OnlyCartVehiclesReserved`: the push and the transaction keep cart and reservations equal even when interleaved |
| `reservations_all` | every operation and fault, two handlers | `TypeOK`, `EntriesHaveBookings` |
| `reservations_cancel` | two handlers, deletion and edits of vehicles | `CancellationTakesEffect` (liveness) |
| `lifecycle_serial` | every payment method, three calls (validate, cancel, webhook) one after the other | `ApprovedIsPaid`, `OneCommission`, `ContractFollowsBooking`, `CancelledIsNotPaid` |
| `lifecycle_concurrent` | every operation, two handlers at once, users that disappear | `TypeOK`, `ReserveMeansOwing`, `NoDuplicatePayment` |
| `timeline` | one vehicle that may be extended and changed for another, four requests after the creation, two deletions at once, faults | `CartFollowsTimeline`, `PaidMatchesNet`, `DeletedTogether`, `CommissionsOfLiveExtensions`, `ReservationsFollowCart`, `DeletionIsWhole` |
| `back_office` | the eleven modules of MCBackOffice, bounds below | one property for each: `CacheExpires`, `WidgetsAgree`, `ToldOnceAndTruly`, `CommissionsAsOwed`, `PromotionsAgree`, `AccountsKept`, `PagesAreComplete`, `SearchesAgree`, `OwnersPaidRight`, `MailsAddUp`, `ExpensesAgree`; and `SettledStays` of two |

The bounds of `back_office`, and why they do:

| Part | Instance | Enough because |
|---|---|---|
| VehicleCache | 2 vehicles, 2 widgets, 1 move, TTL 2, database up to 1, time 4 | a widget can start before the move and fill after it, and its entry live on to its end |
| Dashboard | 2 bookings of 3 kinds, amounts of 0 and 9, months of 3 days, weeks of 2, 3 days pass | a period, the one before it and a day outside both; a tour in another category than the vehicle; a validation without money |
| BookingEmails | 2 events, 1 retry, 1 restart, 1 unit of time, window 1 | two handlers interleave inside and outside of the window, a mail is repeated, a process is lost with one in flight |
| Commissions | 2 vehicles of 2 owners, a seller with his own percentage and the store, 2 commissions, 1 edit | a second commission beside the first, a recalculation of what another handler made, a validation inside a deletion; any other number is the theorem |
| PromotionalPrices | 1 model, 3 days, 2 promotions, 2 requests, 1 update | intervals that overlap, touch and nest, made and moved by requests that race; any other number is the theorem |
| Accounts | 2 users, 2 emails, 1 booking, 2 passwords, 2 requests | two requests that read the same user or email |
| Pages | 4 records, pages of 2, 2 changes | a record moves over the border between pages, and a count differs from its rows; any other number is the theorem |
| Searches | 3 vehicles, 2 days, evening or not, 1 booking, 2 changes | a change of a change, or one that is undone; any other number is the theorem |
| OwnerIncome | 2 months of 2 days, a rental of one vehicle or two, 3 methods, 2 entries, 3 days | an entry in the month after, or two entries of which one is deleted; an early and a late replacement; any other number is the theorem |
| MailTexts | 5 carts with all kinds of items, 3 changes | edits of the cart and of the catalogue before, between and after payment; any other number is the theorem |
| Expenses | 2 days, 2 movements, 1 commission, 4 changes | a movement moved, deleted and restored; a vehicle recategorised or removed after it; any other number is the theorem |

`ContractFollowsBooking` speaks of pending and rejected bookings only: the webhook,
the confirmation and the cancellation never write the contract's status, so for the
other statuses the code makes no attempt to keep the two equal.
`CancelledIsNotPaid` is checked for handlers in sequence; that a cancelled booking has
no money whatever the handlers interleave is the theorem `CancelledIsCleared`.

Runs that refute what a comment or the API says (`findings` quotes the lines):

| Run | Behaviour |
|---|---|
| `reservations_race` | two manual bookings pass the check before either pushes; both hold the vehicle |
| `timeline_reservations` | an extension is made and deleted: the cart comes back, the vehicle stays reserved for the longer period |
| `emails_cancellation` | the mail about a cancellation says nothing was paid: its handler reads the contract first, and `cancelBooking` has reset the booking it was handed by then (2 retries, three methods) |

Further divergences the same modules show. Each was reproduced with TLC by changing
the configuration of the named module as given; they are not kept as runs because
they ask an already stated property of a different mix of operations.

| Module and property | Instance | Behaviour | What the source says |
|---|---|---|---|
| MCVehicleReservations, `CartVehiclesReserved` | `{"web", "vehicleChange"}`, one handler, `Times <- const_TwoTimes`, `MaxChanges = 1` | CAMBIO DE VEHICULO leaves the new vehicle without a reservation | contract.repository.ts:2141 "Los vehículos en newCart ya deberían tener sus reservas creadas" |
| MCVehicleReservations, `CartVehiclesReserved` | `{"web", "prices"}`, one handler, `MaxChanges = 1` | a price import empties the reservations of the vehicles it names | vehicle.controller.ts:88 "columns: Nombre, Semanal, Mensual" |
| MCBookingLifecycle, `NoRejectionAfterApproval` | Efectivo, `{"validate"}`, one handler, three calls | the first late rejection is blocked but writes RECHAZADO, the second sends the mail | booking.service.ts:1688 "Esto previene emails contradictorios" |
| MCBookingLifecycle, `ApprovalAnnounced` | Credito/Debito, `{"validate"}`, one handler, two calls | the mail of an approval that follows a pending one within a minute is dropped | booking.service.ts:1493 "Enviar correo según el estado resultante" |
| MCVehicleReservations, `OnlyCartVehiclesReserved` | `Operations = {"manual", "contract"}`, one handler | a manual booking has two entries per vehicle and the contract repository handles one | contract.repository.ts:2147 "1. Liberar reservas" |
| MCVehicleReservations, `CancelledHoldsNothing` | `{"web", "cancel"}`, two handlers | two cancellations with a common vehicle; one writes back the other's entry | booking.service.ts:1750 "Liberar vehículos antes de cancelar la reserva" |
| MCVehicleReservations, `CancelledHoldsNothing` | `{"web", "cancel", "deleteVehicle"}`, one handler, `MaxChanges = 1` | a deleted vehicle ends the release loop; later vehicles stay held | booking.service.ts:1750, as above |
| MCBookingLifecycle, `OneCommission` | method Efectivo, `{"validate", "confirm"}`, one handler | validate, then confirm: two commissions for the concierge | booking.service.ts:1555 "crear UNA SOLA comisión" |
| MCBookingLifecycle, `OneCommission` | Efectivo, `{"validate"}`, two handlers | two validations at once: two sets of commissions | the check at booking.service.ts:1548 |
| MCBookingLifecycle, `ApprovedIsPaid` | Credito/Debito, `{"cancel", "webhook"}`, two handlers | cancellation and webhook at once: approved with totalPaid 0 | booking.service.ts:1795 "SOLO para estados NO APPROVED" |
| MCBookingLifecycle, `ContractFollowsBooking` | Efectivo, `{"validate"}`, two handlers | two validations at once: booking and contract differ | booking.service.ts:1473 "mantener consistencia" |

The modules of the contract and the back office follow the code also where it surprises. What
they show of it, each in the definition named and a condition of the property beside it:

| Module | Behaviour of the code |
|---|---|
| ContractTimeline, `RestoreEntry` | `restoreHistoryEntry` (contract.repository.ts:3724) never finds a deleted entry, for the hook of contract-history.schema.ts:88 hides it; `getDeletedHistoryEntries` is always empty |
| ContractTimeline, `Unlink` | the deletion of a linked entry answers 404 though it was done |
| ContractTimeline, `Cascade` | an extension that falls with a change of vehicle keeps its commission ("ELIMINAR COMISIÓN", contract.repository.ts:2951, is in the other branch) |
| ContractTimeline, `ReportEvent` | a failed link makes a second entry for the same event (contract.service.ts:479) |
| ContractTimeline, `OldCart` | an extension paid without a new cart, deleted after an earlier one was, brings the deleted extension's cart back |
| ContractTimeline, `RestoreCart` | two deletions of one entry at once both subtract its amount |
| OwnerIncome, `Edit` | after a silent edit the old vehicle has 100 % as well as the new one |
| OwnerIncome, `OriginalEnd` | an extension outside the period takes a replaced vehicle back to its first dates |
| OwnerIncome, `UseOfAdded` | shares exceed 1 when the replacement ends later than the rental |
| OwnerIncome, `RowsTotal` | cash paid in two months: the workbook has the rental in full in both (metrics.repository.ts:3640), and its rows are not prorated |
| OwnerIncome, `Adjustments` | an extension's amount counts for each vehicle of its cart; one made in a later month than the booking is in no month's report |
| Dashboard, `FilteredIncome`, `Utilization` | the filtered card leaves out unpaid bookings; categories without active vehicles vanish |
| Dashboard, `TransactionIncome` | the vehicle filter of the transactions has no effect and hides those whose notes contain "validado", which booking.service.ts:1356 and 1441 write |
| BookingEmails, `Request` | a web transfer without isReserve is mailed as confirmed while it is PENDIENTE, and booking.service.ts:195 says that web bookings get no mails |
| BookingEmails, `Repeated` | the mail of an approval within a minute of the pending one is dropped, also if that one failed |
| BookingEmails, `RowPrice` | items that the cart names by id are shown at today's price |
| Commissions, `Purchase` | without a seller, a purchase that is approved at once pays the owners of the vehicles, one that is validated later pays the store |
| Commissions, `Confirm`, `Edit` | a confirmation adds an unchecked commission that counts the delivery; a recalculation assumes 15 %, and a new concierge makes each owner's commission the full amount |
| Commissions, `Automatic` | the filter by source has no effect: CommissionModel has no getter for it |
| PromotionalPrices, `CheckUpdate` | an update that gives one date is not checked; one without isActive activates; one without a model is refused by the database |
| Accounts, `ReadUser`, `WriteUser` | an email is not checked when it is changed; an update writes the list of bookings back that it read |
| Searches, `UtcDay`, `LocalDay` | the day of a contract is that of UTC and the day of a booking that of Cancun |
| Searches, `SnapshotVehicles` | a vehicle that a silent edit replaced is no longer found |
| MailTexts, `Edit` | an update that drops the delivery writes back the cart from before it: the request's new cart is lost and its total stays (booking.service.ts:1003) |
| MailTexts, `Short`, `ServerDay` | the short English mails leave out quantity, category and delivery; the staff sees an evening ticket on the next day, that of the server |
| MailTexts, `StaffNew` | the staff's templates fail for items that are held by id or have no category |
| Expenses, `Corrected` | an update cannot clear the vehicle of a movement (movement.repository.ts:85) |
| Expenses, `Card`, `ListedCommissions` | the card counts paid commissions by the day of the booking, the list all commissions by their own |
| Expenses, `FoundIn`, `CardOf` | the card of a category hides the expenses of deleted vehicles, the rows by vehicle show them; every category's card has all commissions |

Every property is also refuted by a mutant of the code, so none of them holds by
the shape of the model.

Fairness: `FairNumberSpec` of BookingNumber and `FairSpec` of VehicleReservations assume weak fairness of
the steps of a handler that has started, which is what the event loop of Node.js and
the database server give, and nothing of the clients. `Abort` is not among the
operations of `reservations_cancel`: a handler that is killed by its time limit
does not finish, and the property would be false.

## 4. What is proved

The theorems hold for any values of the constants: any sets of vehicles, bookings, moments,
requests, users, dates and bodies of requests, and any bounds. They assume the named
assumptions of the modules (`ExistingAssumption`, `ConstantsAssumption`), which TLC evaluates
in every run, and, where a theorem says so, a named hypothesis on the operations or inputs.
A hypothesis leaves out behaviour that breaks the property, alone or together with other
operations: section 3 lists the counterexamples of the reservations and the life of a booking,
the text below explains the others. The instances of section 3 that check the same property
satisfy it. The proof modules of the parts of the back office, which MCBackOffice
instantiates, name their assumptions themselves; `PartsAssumption` says that the
constants of the run satisfy them.

**`Booking_proofs`**, of the number: `NumbersAreTyped`, `NumbersAreDistinct`,
`SeriesHasNoGap` and `RefusalsMeanProgress`, for any number of saves. `IInv` adds to the types that the collection always has a greatest number
(finiteness is not needed), that a saved number is taken and was nobody else's, and that a
number in hand is at most one past the numbers taken. That last part is why a stale maximum
can repeat a number but never skip one. `RefusalsMeanProgress` is the action property
`FailureMeansProgress`: its `ProgressInv` says that a number in hand was not in the collection
to start from (`NumberedIsNew`) and that all else in the collection is the number of a saved
booking (`TakenIsSaved`), so the number that refuses a save is that of another one which got
through.

**`VehicleReservations_proofs`** has four groups.

| Theorems | Hypothesis | Invariant and argument |
|---|---|---|
| `TypeCorrect`, `EntriesNameBookings` | none: all operations, any interleaving | `IInv` says of the copies in the hands of handlers what it says of the arrays; without that, writing a copy back could not preserve it. The types of entries need a bound on `pos`, since `NextPos` takes a maximum |
| `NeverBookedTwice`: `NoDoubleBooking` | `Serial`: one handler at a time, without `admin` and `contract`, which check nothing | `SInv`: what the loop has checked so far is still free. `ConflictIsOverlap` is the lemma that the three cases of the availability check are overlap of half-open periods, no more and no less |
| `NobodyInterferes`; `OthersAreSpared`: `ReleaseSparesOthers` | `OneRequest` | `UInv`: what a handler has read of the arrays and the booking is what is there when it writes. The two are what the rest of the serial proofs stand on |
| `CancelledIsReleased`: `CancelledHoldsNothing` | `CartsStay`: `OneRequest`, carts are not edited, no vehicle is deleted | `CInv`: while a booking is released, what it still holds is among the vehicles to do |
| `CartIsReserved`: `CartVehiclesReserved` | `Reliable`: `OneRequest`, creations, cancellations and deletions of vehicles | `KInv`: a creation holds every vehicle that it has passed |
| `CalendarIsImplemented`: `ImplementsCalendar`; `NothingPromisedTwice` | `Checked`: `Reliable` without `admin` | the refinement, step by step: `SaveBooking` is the calendar's Open, for the checked vehicles are free and `KInv` says that the documents promise nothing which the arrays do not show; `FinishCancel` is its Cancel; all else stutters. The second theorem is the calendar's own invariant, read through the mapping |
| `OnlyCartIsReserved`: `OnlyCartVehiclesReserved` | `Atomic`: any number of requests, writers that push or use a transaction; faults and aborts; vehicles are not deleted (a deleted one keeps its entries when a contract replaces it) | `AInv`: an entry says what the cart of its booking says and is the only one of it; a handler that creates a booking has it for itself |
| `CartStaysReserved`: `CartVehiclesReserved` | `Lasting`: any number of requests, `web`, `admin`, `contract`, `deleteVehicle` | `HInv` on top of `AInv`: what a creation has passed it holds, whatever contracts do to other bookings meanwhile |

Of the life: `TypeCorrect`, `ReservesOwe`, `PaymentsAreNotDuplicated` and
`CancelledIsCleared` hold for any handlers and any interleaving. `Sound` says of the booking and
of every copy that a reserve owes something and that no amount occurs twice, and every
computation on a sound copy gives a sound one, so it does not matter which copy is written
last. `CancelledIsCleared` needs that users are not deleted, for the reset of totalPaid comes
after the lookup of the user. `ApprovedHasPaid`, `CommissionsOnce` and `ContractAgrees` are for
`OneRequest`, since each is false of two handlers at once; the second is without `confirm`,
which does not look for commissions, and the third without users that are gone. Their
invariant `SInv` says what a handler knows at each stage: that the booking has the status it
wrote, that the contract has it unless it is about to write it, and that there are no
commissions when it makes them.

**`ContractTimeline_proofs`** is about any number of entries and of deletions at once. Its
base is `LinksHold` (`IInv`): entries, movements, snapshots and handlers name each other, and
only what exists. Each property then has an invariant of its own, which says, as long as
certain things have not happened, what the handlers between two awaits leave to be done.

| Theorem | Hypothesis | Invariant and argument |
|---|---|---|
| `TypesHold`, `TimelineIsRecord` | | every step leaves each entry as it was but for the two fields that a deletion sets; `Grown` and `MarkDeleted` are the only ways in which the history changes |
| `DeletionsAreWhole`: `DeletionIsWhole` | | `WholeInv`: what is to fall with an entry is among the entries to do |
| `GoneTogether`: `DeletedTogether` | | `TogetherInv`: the movement of a deleted entry is deleted, or a handler is about to |
| `CommissionsGo`: `CommissionsOfLiveExtensions` | | `CommissionInv`: commissions are of extensions that stand, and go before their extension does. For both, `NothingFalls` says that nothing falls with an entry where no cascade was |
| `ReservationsFollow`: `ReservationsFollowCart` | `EachVehicleOnce`: the cart that a booking starts with names a vehicle once | `ReservedInv`, from what `updateVehicleReservations` does to reservations that fit the old cart. Later carts may name one twice, for it is the code that writes their entries |
| `CartFollows`: `CartFollowsTimeline` | `CartsHaveItems`: the cart that a booking starts with is not empty | `CartInv`: versions and snapshots remember, for each entry that may be deleted next, the cart that the timeline shows without it; so the four sources of `OldCart` find the right one. An empty cart is none for the code, which asks for its length |
| `PaidIsNet`: `PaidMatchesNet` | `ChargesAndRefunds`: what an update charges is not negative, and no negative amount is reported of an expense, a delivery, an extension or a change of vehicle | `PaidInv`: what was paid is the total with all live charges, less the entry that a deletion has given back and not yet marked. The sum over the history is a recursive function; `SumsExist`, `SumsEnd` and `SumChanges` (one entry changes, by induction over places with a least counterexample) give what appending (`SumGrown`) and marking (`SumMarked`) do to it. A negative amount of such an event is counted one way when it is reported and another when it is deleted or summed |

The proof of `PaidMatchesNet` found what three million states had not: what a deletion or a
refund takes off stops at zero (`Math.max(0, ...)`, contract.repository.ts:2683, 3079 and 3618),
and the deletion of a delivery that is not the second entry takes the delivery's cost off even
if the entry has no amount. With larger amounts than those of the instance, what was paid is
then not what the contract comes to; the property excludes both, by `"owed"` and
`"charge deleted"`.

**`PromotionalPrices_proofs`**: `PromotionsAlwaysAgree`, from `LastDay \in Nat` alone, for any
models, dates, promotions and requests, of which `NeverOverlapping` is a part.
`PromotionsDisjoint` says nothing of requests that have looked and not yet written, so it is
not inductive; `CheckedIsClear` adds that what such a request will write overlaps only with
what was written since it looked (`unseen`). That a promotion which races is recorded in
`raced` is what makes the exception exact: nothing else overlaps.

**`Accounts_proofs`**: `AccountsAreKept`, of `EmailsOfOneUser`, `CustomersAreFound` and
`UsersAreAsAsked`, for any emails and any number of users, bookings and requests, without
assumptions. What a request holds that has read and not written is the user as he is unless
another one wrote him (`ReadsAreCurrent`), and an email that was looked for is free unless
another request registered it (`CheckedIsFree`): the exceptions of the properties (`raced`,
`doubled`) are therefore the only ways in which they fail.

**`BookingEmails_proofs`**: `CustomerToldOnceAndTruly`, of four parts, for any window, number
of attempts, languages, events and restarts. `WindowHolds` and `RetriesAreBounded` rest on
`IInv`: `Remembered` says that `sentEmails` is the latest of the mails that the running process
registered, `Attempted` that a mail under way has fewer copies than it had attempts, and that
one which is not rendered has none. `MailsTellTruth` and `CustomersAreTold` rest on `Truth`
(`TruthInvariance`): a handler's object is the booking of its event until the service resets
what is paid of a cancellation, a rendered mail tells the booking of its event, and a booking
that is approved or cancelled has a handler that is to tell of it. They assume `Amounts` (the
deposit is between zero and the total) and `KnownMethods`: with a payment method other than
card, cash and transfer a purchase on the web stays pending and is mailed as confirmed.

**`BackOffice_proofs`** brings these three to the run that checks them:
`OfficeToldOnceAndTruly`, `OfficePromotionsAgree` and `OfficeAccountsKept` are about
`OfficeSpec` and any values of its constants. A part neither stops nor begins to be the one
that runs (`PartStays`), so a behaviour of the office is one of its part's specification or
never shows that part. The other parts are proved there from the start.

`OfficeCacheExpires` is `StaleNoLongerThanTTL` and `EveryEntryExpires`, for any vehicles,
categories, widgets and times (`TTL` positive, some category). `StaleHasTimer` names the timer
that will end a stale entry, by when the vehicle was moved; `WaitingIsRecent` relates what a
widget holds to when it was read, so that an old answer which overwrites a new entry is bounded
too. The bound is what the cache keeps and the database takes, not `CACHE_TTL` alone.

`OfficeSearchesAgree`: that the searches
agree holds by what they are; that a contract is found by all its vehicles needs
`KnowledgeHolds`, which says at every moment that cart and snapshots name nothing but what the
contract has had, and all of it but what is recorded as `unknown`. An undoing takes the last
snapshot, so both its vehicles are at stake: the old one is the cart's again, the new one is
what `unknown` must name.

`OfficeExpensesAgree` is proved there too. The card, the lists, the rows by vehicle and the
owners' statements are sums over sets of movements that are equal or disjoint; of the history
only `GeneralHasNoVehicle` matters (a correction gives a movement a vehicle and never takes one
away), without which a movement could be missing from both halves of the card. A sum over a
set is what MapThenSumSet computes, element after element in the order of CHOOSE; that it may
begin with any element (`SumWithout`) and splits over disjoint sets (`SumOfUnion`) is proved by
a smallest counterexample, as an induction is not to be had. The total of the rows is a sum of
sums (`RowsSpent`).

`OfficeCommissionsAsOwed` needs `AgentsInv`: every commission has a number of its own
(`Numbered`), so that one set by hand can be told from those that are recomputed; what is
deleted is not followed; a booking given to the store has no percentage, so that nothing is
due. `AmountsFollowBooking` speaks of a single automatic commission and is not inductive, for
there may be several until staff sets the others by hand; `AllFollow` says it of any number.
The lists of sellers and owners are a sum of sums, as the rows of Expenses are.

`OfficeSettledStays` is an action property of two parts. That no step recalculates a
commission set by hand follows from the numbers too. A statement of a month that is over
is made from records that go on changing: an entry of today is outside that month
(`TotalsGoOn`), the vehicle's use is unchanged or whole (`UseGoesOn`), and of the whole the
payments do not depend on how long it is, for `Round(t * u, k * u)` is `Round(t, k)`
(`RoundScales`); of the days, the extension that is left out takes the vehicle back to the
item it had, which is what the last snapshot shows (`DaysStay`). `IncomeInv` adds to the types
that no entry has two snapshots, so that a deletion takes back one change.

`OfficeWidgetsAgree` needs of the dynamics only what type each field has: a widget is a
function of the bookings, and what could be wrong are the functions. Money grouped in two
ways is the same money because the sum over the groups is the sum over all (`SumOfGroups`,
for the categories and the vehicles) and a sum of rows is a sum of columns (`SumsExchange`,
for methods and media); a filter shows no more than the whole because nothing counts for
less than zero (`SumOfSome`). Periods are divisions of the clock, so that two of them are
adjacent for any length of weeks, months and years (`DaysDivide`, `PeriodsAddUp`). The proof
showed one case that instances with amounts above zero had hidden: `validateBooking` accepts
an amount of zero, and the filtered card then has nothing of a category whose revenue is
shown; `FiltersCoverIncome` names that exception, and the run now has such an amount.

**`BackOfficeViews_proofs`** continues it with the lists, the mails and the owners' statements.

`OfficePagesAreComplete` counts what a reader misses. A record has a place, as many as come
before it (`Place`), and the sorted list is the records by their places (`SortedIs`); missed
are the records that stayed, were not read, and are at places that the reader has passed
(`Missed`) or that are beyond the total which ends his reading (`Beyond`). `AllAccounted` bounds
them, page half read or not, by what is recorded as left or late. The property itself speaks of
a reader who is done and is not inductive: a change while he reads lets a record slip past him,
which only the place of each can tell. One that goes shifts the others by one place and lets at
most one of them past (`HideAccounted`), one that moves does so or slips past itself
(`RenameAccounted`), one that comes pushes at most one beyond the total (`ArrivalAccounted`).
That a quiet list is read in order is `ReadInOrder`: what was read is how the sorted list begins.

`OfficeMailsAddUp` needs `Settled`: the total is that of the cart and its delivery unless it is
recorded that the code let them part (`unsettled`). It is proved of an edit that writes back the
old cart, too, where `MaxZero(total - delivery)` is what the old cart costs. The rest is about
templates: every mail's rows are those of a function from lines to rows and one from lines to
the fields that are told (`RowsOf`), so that two mails tell the same if their functions agree
where both tell (`ToldIs`, `ShortAgrees`, `StaffAgrees`), whatever the cart.

`OfficeOwnersPaidRight` rests on `OwnersInv`, which adds to `IncomeInv` what the amounts need:
what is dated and paid lies in the past (`DatesPassed`), changes and extensions keep the items of
a rental and their prices (`SameRental`), and a snapshot goes with its entry (`SnapshotsStand`).
The last is why a deletion leaves no trace: when no entry stands there is no snapshot. Its
assumption `ConstantsAssumption` now says, too, that vehicles and months are finitely many,
without which there is no sum of them. The five parts:

* each payment is in one of the disjoint months, at no more than its whole amount, for rounding
  respects order (`Rounded`, `PaymentsGrow`, `InOneMonth`, `IncomeCountedOnce`);
* of a rental with one replacement, every snapshot before the change names the first vehicle and
  every one after it the second. The proof has no induction: it takes the last snapshot before
  the change, or the first after it, for which this fails, and its neighbour fails as well
  (`OneChange`). So the days used by the two are those of the first item (`SharesAre`,
  `SharesAreWhole`);
* an owner's payments are off his share by one cent at most, both parts of a cash payment
  together (`PaymentsAreClose`), so two shares of a whole exceed it by two (`TwoShares`);
* a whole use is paid whatever its length (`WholePayments`), which makes the rows of the
  workbook and the summary agree (`RowsAreIncome`).

Rentals that were replaced twice, silently, or by a vehicle that ends later are outside of
`OneReplacement`; section 3 has cases of the latter two where the shares exceed the whole.

Only checked with TLC is liveness (`SomeSaveSucceeds`, `CancellationTakesEffect`), which needs
ENABLED. Every other property of a passing run is a theorem.

## 5. What is not modelled, and the plan

Not modelled, because nothing in it depends on order or failure: catalogs, tours, tickets,
transfers, addresses, branches, companies, the FAQ and the like (single documents that are
created, read and updated; where another component reads them they are constants or a
catalogue), documents (uploads), prices and exchange rates (an external service), core and
configuration (wiring), password hashing and tokens, the mails of accounts and forms, the
layout of workbooks, rental durations and the list of clients among the metrics. The
services `movement-migration` and `enhanced-migration` are registered in no module.

What could follow:

1. Composition of ContractTimeline with VehicleReservations, whose `ChangeContractCart`
   stands for its `Update`.
2. The user's own cart document with its branches and travellers.
