# Verification of the Eventy backend

Eventy is a NestJS server for planning events. A customer creates an event and
asks providers for services (halls, catering, decoration, music, ...); each
request is a *booking*. The provider answers with a quote, the customer
confirms it and pays, the service runs and is completed. Providers can also
bundle services of several providers into *packages* that customers buy whole.
All state is in one PostgreSQL database reached through Prisma; payments go
through Stripe or a mock gateway; cron jobs (`@nestjs/schedule`) clean up.

This directory holds TLA+ models of that code, TLC configurations that check
them on small instances, and TLAPS proofs that hold for every instance. Paths
below are relative to the repository; `src/modules/...` is the server's source.

## 1. Inventory

| Component | State it keeps | Operations | What is hard | What makes it correct |
|---|---|---|---|---|
| Customer bookings `bookings/bookings.service.ts` | `Booking.status`, `acceptedAt`, `cancellationDeadline` | confirm or reject a quote, decide on many quotes at once, progress the event | guards are checked on rows read before the write; progression spans several queries | nothing runs unpaid; an event is on only if a service is |
| Provider bookings `bookings/provider-bookings.service.ts` | the same rows | send a quote, reject, complete | the same, from the other party | only a quoted booking is paid for |
| Booking expiry `bookings/booking-cleanup.service.ts` | the same rows | pass every 15 minutes that cancels what was not decided or paid in time | works on a snapshot while requests go on | an unpaid booking does not stay open |
| Events `event/event.service.ts` | `Event.status`, its bookings | create, add a service, cancel, archive | availability and capacity against concurrent customers; cancellation against payments | capacity is never exceeded; a running event is not called off unpaid |
| Past events `event/event-cleanup.service.ts` | the same rows | pass that completes events that are over | three separate writes | every running event ends |
| Payments `payments/payments.service.ts` | `Payment` (one per booking) | create, intent, synchronous charge, confirm, cash, refund | lost gateway answers, retries, two requests for one booking, several writes per payment | money is taken once, and counts as paid only on the gateway's word |
| Gateways `payments/gateways/` | intents and charges at Stripe | createIntent, verifyIntent, charge, refund | an answer can be lost after the effect | see payments |
| Delivery `delivery/delivery.service.ts` | `Delivery` (one per booking) | create if required, update status | check and write are apart, so racing updates can set it back | nothing is delivered that never was out |
| Package bookings `packages/packages.service.ts`, `packages-cron.service.ts` | `PackageBooking`, child `Booking`s, `Payment` | buy, accept, reject, pay in cash or by card, complete, cancel; expiry crons | one purchase spans a parent, its children, their own expiry and the payment | nothing runs unpaid; what is closed frees its slots, what is open ends |
| Package authoring, same files | `Package`, join requests, members | create, update, activate, accept, reject, leave, cancel; expiry of join requests | members decide concurrently | an active package has all its members' consent |
| Availability `event`, `packages`, `blocked-slots` | bookings and blocked slots per service and day | serializable checks on insert; block and unblock a slot | write skew; status sets that differ between copies of the check | no slot over capacity |
| Time windows `common/helpers/time.helper.ts` | none | overlap of windows that may cross midnight | boundaries | agrees with sets of minutes |
| Discounts `discounts/` | `Discount` | create, update, activate, price | one active per target, rounding | one discount applies |
| Services and admin approval `services/`, `admin/` | service and sub-service status, details, change requests | create, complete, update, delete; approve and reject | decisions on what the provider is editing; freezing during a review | what is on sale is complete and was not refused; nothing stays frozen unseen |
| Uploads `shared/services/cloudinary.service.ts` and its callers | files at Cloudinary, the rows that show them | upload, destroy, change requests with media | two stores without a transaction | what is shown is stored |
| Auth, users blocked by admins `auth/`, `admin/admin-useres...` | account, OTP code, refresh tokens | signup, login, verify, reset, refresh, logout, block | a token presented twice; equal tokens signed in one second | each stored token is exchanged at most once |
| Reviews, complaints `reviews/`, `complaints/` | review rows, aggregate, complaint status | create, reply, update status | aggregates and checks on stale reads | the rating is of real reviews; closing follows the rules |
| Notifications, event bus `notifications/`, `common/events/` | notification rows, device tokens | listeners to domain events, push, cleaning of tokens | pushes that fail half way; devices that come and go | no working device is forgotten; no row stays PENDING |
| Service types `services/` | table and a cache in Redis | list, change | the cache refilled after it was emptied | the cache catches up |
| Favorites, suggested packages, reports, bank account, dashboards | plain records | CRUD, read-only queries | - | - |

Handlers call each other inside the process (`confirmQuote` and `markPaid`
both end in the progression code of bookings; `confirmQuote` and
`bulkQuoteDecision` create the delivery) and otherwise meet only in the
database. `PROJECT.json` lists every component with its status and every
hazard at its line.

## 2. Modules

| Module | Contents | Instance | Proofs |
|---|---|---|---|
| `EventBookings` | one event, its standalone bookings, their payments and deliveries, the two cron jobs over them, the gateway and the clock | `MCEventBookings` | `EventBookingsProofs`, `EventBookingsPaidProofs` |
| `PaymentGate` | the abstract specification: what payment promises | refined by `EventBookings` | `EventBookingsPaidProofs` |
| `PackageBookings` | one purchase of a package, on top of `EventBookings`, whose bookings are its children | `MCPackageBookings` | `PackageBookingsProofs` |
| `PurchaseGate` | the abstract specification: what payment promises to a purchase and its services | refined by `PackageBookings` | `PackageBookingsProofs` |
| `TimeWindows` | the two functions on times of the day | through `Availability` | `AvailabilityProofs` |
| `Availability` | who may book which service when: hours, slots, blocks, capacities | `MCAvailability` | `AvailabilityProofs` |
| `Catalogue` | services, sub-services, change requests, admins | `MCProviderSide` | `CatalogueProofs` |
| `Files` | uploads and the rows that show them | `MCProviderSide` | `FilesProofs` |
| `ProviderSide` | `Catalogue` and `Files` side by side | `MCProviderSide` | both |
| `PackageMembership` | the making of a package, its partners and its discounts | `MCPackageMembership` | `PackageMembershipProofs` |
| `Accounts`, `Notifications`, `AfterSales` | accounts and tokens; notifications and devices; deliveries, complaints, reviews, types cache | `MCBackOffice` | `BackOfficeProofs` |
| `BackOffice` | these three side by side | `MCBackOffice` | `BackOfficeProofs` |

What interacts in the code is composed in the models: `PackageBookings`
extends `EventBookings` and takes its actions as they are, so the endpoints and
crons of standalone bookings act on the children of a purchase. `Availability`
abstracts what these two do to *open*, *completed* and *dead*. Late writes take a
booking from any of the three to any other (`confirmQuote` that read a quoted
booking writes CONFIRMED after it was completed, for one), so any change may
happen there; a row that comes back to *open* is marked `revived`.
The other modules share only identifiers with the rest. `ProviderSide` and
`BackOffice` put parts next to each other that share no state at all; a
behaviour there is one of a single part while the others rest, which covers
every property stated about one part and keeps the instance small.

## 3. EventBookings and the code

**Processes.** Node runs one handler at a time between two `await`s. A thread
of the model is an HTTP request in flight (`Workers`) or one of the two cron
jobs; `job[t]` holds the step it is at and what it remembers in local
variables: the booking (`b`), the ids collected (`ids`), those still to visit
(`rest`), one value read or given (`note`). An action is one database or
gateway call with the code up to the next `await`. So every place where the
code uses something it read earlier is a place where the model lets the others
act first.

| Code | Actions |
|---|---|
| `createEvent` | `CreateEvent` |
| `addServiceToEvent` | `AddServiceToEvent`, `AddServiceCommit` |
| `cancelEvent` | `CancelEvent`, `CancelEventRead`, `CancelEventCommit` |
| `sendQuote`, `rejectBooking`, `completeBooking` | `SendQuote`, `SendQuoteCommit`; `RejectBooking`, `RejectBookingWrite`; `CompleteBooking`, `CompleteBookingWrite` |
| `confirmQuote`, with `createIfRequired` and `tryProgressEvent` | `ConfirmQuote`, `ConfirmQuoteWrite`, `CreateIfRequired`, `TryProgressEventRead`, `TryProgressEventPaid` (one per payment read), `TryProgressEventCommit` |
| `rejectQuote` | `RejectQuote`, `RejectQuoteSiblings`, `RejectQuoteCommit` |
| `bulkQuoteDecision` | `BulkQuoteDecision`, `BulkCommit` or `BulkConflict`, then `progressBookingAndEvent` for each booking that cleared |
| `progressBookingAndEvent` | `ProgressBookingRead`, `ProgressEventRead`, `ProgressCommit` |
| `createPayment` | `CreatePayment`, `CreatePaymentRow`, `GatewayCreateIntent`, then `IntentRowWrite` or `ProcessElectronicPayment`, `GatewayCharge`, `PaymentFailedWrite` or `markPaid` |
| `confirmPayment` | `ConfirmPayment`, `GatewayVerifyIntent`, `PaymentFailedWrite` or `markPaid` |
| `markCashPaid` | `MarkCashPaid`, `markPaid` |
| `markPaid` | `MarkPaidWrite`, `MarkPaidDeadline`, `progressBookingAndEvent` |
| `refundPayment` | `RefundPayment`, `RefundPaymentWrite` |
| `handleExpiredBookings` | `HandleExpiredBookings`, `ExpireBooking` for each booking found |
| `completePastEvents` | `CompletePastEvents`, `PastCancelUndecided`, `PastCompleteRunning`, `PastCompleteEvent` |
| the customer in the Payment Sheet, the clock, failures | `CustomerPaysIntent`, `DeadlinePasses`, `EventTimePasses`, `Fail` |

The `map` of `PROJECT.json` gives the lines of each definition.

**Abstractions.**

- A `$transaction` is one action: what it writes becomes visible at once. Where
  the code re-reads nothing inside it, this is what PostgreSQL's Read Committed
  gives; `bulkQuoteDecision` does read in its transaction what it has just
  written.
- A find followed by a create of a row under a unique key
  (`Payment.bookingId`, `Delivery.bookingId`) is one action: the loser of the
  race fails on the key and changes nothing. For `bulkQuoteDecision`, whose
  whole transaction is rolled back, that outcome is `BulkConflict`.
- A handler whose first guard fails throws and has changed nothing, so its
  successful start is all that is modelled.
- Time is what the code compares: a deadline is absent, in the `future` or
  `passed`; the event is `far` (its services can still be changed), `near` or
  `past`. Amounts, names and notifications are left out; of `finalAmount` only
  whether a quote has set it.
- Callers are the rightful ones: ownership and role checks pass.
- One pass of each cron job is in flight at a time: passes are a minute or a
  quarter of an hour apart. (The scheduler would start a second one beside a pass that takes
  longer than its period.)
- Events share no state, so the model has one. Bookings with
  a `packageBookingId` (package children) are not in it.
- Stripe's part is external: opening an intent can succeed or fail, a charge
  can succeed, be refused, or succeed with its answer lost (`charge()` reports
  any exception as a failure).

### The other modules and the code

**PackageBookings.** The purchase has a status, two deadlines and one payment
(`bill`); its children are the bookings of `EventBookings`. Requests and steps
are cut as there.

| Code | Actions |
|---|---|
| `bookPackage` | `BookPackage` (the rows; the checks are `Availability`'s) |
| `acceptPackageBooking`, `rejectPackageBooking`, `cancelPackageBooking`, `completePackageBooking` | the check by the same name; `AcceptCommit`, `RejectCommit`, `CancelPackageCommit`, `CompletePackageCommit` |
| `payPackageBooking` | `PayPackageBooking`, `PackageCreateIntent`, `PackageIntentRow`, `PackageMockPaid` or `PackageCashChosen` |
| `confirmPackageCashPayment`, `confirmPackageCardPayment` | the check by the same name; `PackageCashPaid`; `PackageVerifyIntent`, `PackageCardPaid` or `PackageCardFailed` |
| `PaymentsService.confirmPayment` on the payment of a purchase | `ConfirmPurchasePayment`, `PurchaseVerifyIntent`, `PurchaseMarkPaid` or `PackageCardFailed` |
| `progressPackageToInProgress`, `tryProgressPackageBooking` | `ProgressPackageToInProgress`; `TryProgressPackageRead`, `TryProgressPackageCommit` |
| the jobs of `PackagesCronService` over purchases | `Pass` (the query), then `ExpirePending`, `ExpireUnpaid`, `CompleteFinished` for the purchase found |
| `markPaid` for a child, a refund | `ChildPaidDeadline`; `RefundPackagePayment`, `PackageRefunded` |

A time only passes while some query looks at it (`PackageTimePasses`,
`EventNears`), which leaves out steps nobody can observe. Three variables no code
reads remember what happened: `received`, how money arrived (cash the owner
confirmed, a card at the gateway); `assumed`, that a transfer without an intent
was taken as paid (`PackageMockPaid`), where no money moved; `overrun`, the
children that were running when a cancellation or an expiry, decided before the
purchase was started, closed it over them.

**TimeWindows, Availability.** Times are 0 .. `DayLength` - 1, the minutes of the code (hours
in the run); a window whose end is not after its start runs past midnight.
`CreateEvent`, `AddServiceToEvent` and `BookPackageCommit` are one action each,
check and insert together: the code runs them `Serializable`, so a transaction
whose reads were overtaken aborts. What is outside the transaction (the first
look of `bookPackage` for an active purchase) is a step of its own,
`BookPackage`. The two status sets of the code are kept apart
(`ACTIVE_BOOKING_STATUSES`, `PackageActiveStatuses`). `CreateBlock` makes one
row per day, `RemoveBlock` takes one or its group. `BookingsChange` and
`PurchaseChanges` stand for the other modules, late writes that bring a
cancelled or completed row back included. A request names between one and
`MaxServices` services, each with the slot and the items it wants; `Selections`
are those the endpoints let through (a slot of that service or working hours,
items where the service is counted).

**Catalogue.** A service has a status and its details or not, a sub-service a
status and whether it is available; while an update is under review the status
is PENDING_APPROVAL, which freezes the row. A request is a job
of a worker that looks (`BeginUpdate`, `FindRequest`, ...), may look again, and
writes (`UpdateService`, `ApproveServiceUpdate`, ...); `Abandon` is an
exception or a crash in between. `CreateService` and `FindProvider` /
`ApproveProviderJoin` show the first service of a provider, which waits for its
provider's approval and has no request of its own.

**Files.** `stored` is what Cloudinary has, `picture` and `media` what the rows
name. A task destroys, uploads and writes in the order of the code, and others
get between any two calls; `TaskFails` ends it anywhere. Two history variables
record what the code is known to lose: `lost` (destroyed, then the request
failed before it wrote the row) and `doubled` (a change request two admins
decided at once, whose file got two rows). Public ids are interchangeable; an
upload takes the next unused one by `CHOOSE`. A change request that brings no
file is `Catalogue`'s only.

**PackageMembership.** `rows` are the rows of `PackageService` in the order of
their creation, never reused. Of each, `terms` counts the times its provider was
asked: once when the row is made, and again when the owner changes the discount
(`AfterRemoval`); `agreed` is the count an answer was given to, or 0. An answer
is to the terms its handler read (`FindInvitation`), and is written by the row's
id, as the code does. `CommitUpdate` is the transaction of `updatePackage` with the rows
it deletes, resets and creates; `ActivatePackage`, `LeavePackage`, `BackToDraft`,
`CancelOwnedPackage` are the writes after their checks; `ExpireInvitation` is
one of the rows the job's query found. Discounts are suspended in a write after
the activation (`SuspendDiscounts`).

**Accounts, Notifications, AfterSales.** A call of `Accounts` is a request
between two database or Redis calls. A refresh token is the second it was signed
in: `signRefreshToken` signs the account and jsonwebtoken the time in seconds, no
random id, so two tokens of one account and second are the same string.
`SignRefreshToken` and the insert (`GenerateTokens`) are two steps; the insert
fails on the unique key while a row with the string is there. `issued`, `heirs`
and `loggedOut` count, per string, the rows ever stored, the pairs issued for
them and the rows a logout took. The account's e-mail and role, which are signed
too, do not change. A wrong password, a booking that forbids a
block and any error are the client's or the environment's choice (`CallFails`).
`Notifications` has a row and the state of its delivery per emitted event:
`TypesOf` is the table of the listener, `Dispatch` has the outcomes of the
Firebase provider (unavailable, one token, a multicast with dead tokens).
`AfterSales` has a check and a write per update, and `createReview` as a
transaction at the default isolation: it counts what has been committed and
its own row.

## 4. Properties and runs

| Run | Instance | Properties | States |
|---|---|---|---|
| `EventBookingsOne` | 1 booking, 2 requests in flight, all endpoints, any thread may fail | `TypeOK`, `PaidGate`, `NoDeadlineMeansPaid`, `VerifiedBeforePaid`, `ChargedAtMostOnce` | 442,134 |
| `EventBookingsTwo` | 2 bookings, 1 request, the endpoints that settle a booking or switch the event, any thread may fail | `EventStartedIsPaid`, `ImplementsPaymentGate` | 371,158 |
| `EventBookingsLive` | 1 booking, 1 request, all endpoints, requests may fail | `UnpaidExpires`, `EventEnds` | 7,306 |
| `PackageRaces` | one purchase of 2 services, 2 requests in flight, 4 in all, the package crons, payments and quotes of the children | `PackageTypeOK`, `ServiceRunsPaid`, `PurchasePaymentReceived`, `ClosedPurchaseFreesSlots`, `OnePaymentWindow`, `ImplementsPurchaseGate` | 924,579 |
| `PackageEnds` | the same purchase, 1 request that may die, 3 in all, both crons of the children too | `UnpaidPurchaseEnds`, `RunningPurchaseEnds` | 153,283 |
| `Availability` | 2 customers, one day of 6 hours, a hall with hours past midnight, a caterer with 3 slots and counted meals, a package of both, requests for 1 or 2 services, 4 bookings, 1 block, 1 change by the other modules | `TypeOK`, `CapacityHolds`, `SlotCapacityHolds`, `DailyCapacityHolds`, `NoDoubleBooking`, `InsideHours`, `OutsideBlocks` | 188,307 |
| `ProviderSide` | a hall, a caterer's service with one sub-service, 2 requests in flight; or 3 files, 2 in flight, 4 in all | `ProviderSideTypeOK`, `ActiveIsComplete`, `RejectedIsOffSale`, `UnderReviewHasRequest`, `FilesAreThere` | 1,086,753 |
| `PackageMembership` | a hall and a sound service of the owner, a partner's food, 2 requests in flight, 4 in all, 4 rows ever | `MembershipTypeOK`, `PartnersConsented`, `OwnerHallStays`, `InvitationsEnd` | 283,658 |
| `BackOffice` | 2 requests in flight, 4 in all, 2 seconds, 1 code; 1 notification, 2 devices; 2 reviews, 2 versions of the types | `BackOfficeTypeOK`, `RotationIsOnce`, `ClosedFollowsTheRules`, `RatingIsOfReviews`, `LiveDevicesStay`, `NotificationsSettle`, `TypesCacheCatchesUp` | 469,393 |
| `PaidBookingStarts`, `PaidIsNotCancelled`, `RunningEventStaysOn` | the smallest that shows it | one each, violated | - |

- `PaidGate`: a booking that runs or is completed has been paid, although the
  code that starts it saw the payment several calls earlier.
- `EventStartedIsPaid`: an event that runs or is over has a paid booking.
- `NoDeadlineMeansPaid`: only payment takes a booking out of the expiry job's
  sight.
- `VerifiedBeforePaid`: a bank transfer counts as cleared only if the gateway
  took the money. Transfers of the bulk decision are mocked in the code and
  exempt.
- `ChargedAtMostOnce`: however often a payment is created or confirmed and
  whatever answers are lost.
- `ImplementsPaymentGate`: with `cleared` the bookings whose `paidAt` is set,
  `started` those whose `acceptedAt` is set and `running` whether the event is
  IN_PROGRESS or COMPLETED, every step is one of `PaymentGate` or changes
  nothing there: cleared payments stay cleared, a service starts only after
  its payment has cleared, an event is on only if a service has started.
- `UnpaidExpires`, `EventEnds`: an open unpaid booking is paid or leaves the
  open statuses; a running event stops running.

- `ServiceRunsPaid`: a child runs only after a payment, its own or the
  purchase's, through whichever of the four ways a child can be started.
- `ImplementsPurchaseGate`: with `own` the children whose own payment has
  cleared, `whole` whether the purchase's has, `started` the children whose
  `acceptedAt` is set and `running` whether the purchase or its event is
  IN_PROGRESS or COMPLETED, every step is one of `PurchaseGate` or changes
  nothing there. A payment stays cleared and starts nothing in the same step,
  a child starts only when it is covered at that moment, the purchase and its
  event go on only after a payment. `PurchaseStartIsPaid` follows from it.
- `PurchasePaymentReceived`: the payment of a purchase clears on the owner's
  word for cash or the gateway's for a card, also when the customer switches
  methods or opens a second intent during a confirmation. The exception is named
  (`assumed`): a transfer that gets no intent is marked PAID by
  `payPackageBooking`, and nobody has paid (section 6).
- `ClosedPurchaseFreesSlots`: a purchase that is rejected, cancelled or expired
  leaves no child pending, confirmed or running. Three kinds are exempt, by name:
  a child its provider quoted (`sendQuote` moves it into a status the closing
  transactions do not select), one that runs on its own payment, and those that
  were already running when a late cancellation or expiry committed (`overrun`;
  section 6).
- `OnePaymentWindow`: two accepts of one purchase do not reopen a payment
  window that has passed.
- `UnpaidPurchaseEnds`, `RunningPurchaseEnds`: a purchase that is undecided or
  waits for its payment is paid or comes to an end, and so does one that runs. (A
  purchase that was paid and not started is neither; section 6.)
- `CapacityHolds`, `SlotCapacityHolds`, `DailyCapacityHolds`: no more open
  bookings than places. Rows that a late write brought back after they were
  completed or dead are not counted (they pass no check), and an order that
  lists a sub-service twice counts by its largest item (see section 6).
- `NoDoubleBooking`: one service per customer and day, one open purchase per
  customer, however often a request is sent.
- `InsideHours`, `OutsideBlocks`: every minute of a booking is one of its hours;
  a new booking meets no block of its day.
- `ActiveIsComplete`, `RejectedIsOffSale`, `UnderReviewHasRequest`: decisions of
  admins cross the edits of providers, and still nothing incomplete or refused
  is on sale, and nothing is frozen that no admin can find.
- `FilesAreThere`: what is shown is stored, but for what a request in flight has
  destroyed, `lost` and `doubled`.
- `PartnersConsented`: a partner that is in agreed to the terms its row has now.
  Exempt is an answer to earlier terms (`Overtaken`): they were changed between
  the look and the write of the acceptance, which does not look again. `OwnerHallStays`: the package's hall
  leaves it only with the package or the service. `InvitationsEnd`: every
  invitation is answered, withdrawn or expires.
- `RotationIsOnce`: each row a refresh token was stored in yields one pair of
  tokens, or none if a logout took it, however the requests that present it
  cross. The same string can be exchanged again only if it was stored again, by
  a second pair signed in its second. `ClosedFollowsTheRules`, `RatingIsOfReviews`: what racing updates may
  leave behind.
- `LiveDevicesStay`: the cleaning after a push takes dead devices only.
  `NotificationsSettle`: no row stays PENDING but after a crash or a double error.
  `TypesCacheCatchesUp`: the cache is empty or right again and again.

**Bounds of `EventBookings`.** Properties over one booking need the two requests that race and
the two crons; with one booking all of the negotiation, payment, expiry and
failure paths are reached, and other bookings matter only for what the event
does, which the two-booking instance covers: a sibling that is undecided, paid,
running or terminal while the other one moves, loops that stop half way. A third
concurrent request adds no new kind of race on one row: each handler is
disturbed by any one write between its read and its write. The theorems of
section 5 remove the bounds for the properties they state. `captures` needs no
bound: one row is charged at most once. No counter is capped.

**Bounds of the other modules**, each a named constant. `PackageRaces`: two
requests race, four in all suffice for accept, pay, a second payment and the
decision that crosses them; one intent, since the gateway's answer is about the
intent named in the row; the requests to children are those that pay or
reprice them, and their crons (whose effects on a booking `EventBookings`
covers) run in `PackageEnds`. `Availability`: capacities are 1 and 2, so that the last place
is contended for within four bookings, and `MaxServices` is 2, so that an event can ask
for both services; one change by the other modules frees a place or ends a
purchase (to bring a row back takes two, which the theorems cover); the day of six hours has an event
and hours that run past midnight and a slot that ends before the event does; `Packaged` is empty, its
only use being to refuse. `ProviderSide`: two reviews, a deletion and an edit
cross with two requests in flight and two change requests; three uploads cover
an original, its replacement and a competing one. `PackageMembership`: with four
requests an invitation is withdrawn, renewed and answered twice; one service
can be deleted under the package. `BackOffice`: in four requests within two
seconds a token is exchanged, stored again and exchanged once more, or presented
twice at once; a second notification could only
clean devices, which `RemoveToken` does too; the listener's table is the same
for every event but for the type, so one event occurs. Symmetry is used in the runs without liveness, on sets of
model values that are never compared but for equality.

`CHECK_DEADLOCK FALSE` in `EventBookings`: an event that is over, with all its bookings decided
and no payment left to make, is a legal end; likewise a settled purchase, a full calendar, a decided
catalogue, requests used up.

**Fairness** (`FairSpec`, used only for the liveness run and for
`PaidBookingStarts`). A promise that was started is run on by the event loop:
`WF(Advance(t))`. It may still throw or die with the process (`Fail`), for
requests at any point. `@Cron` starts each job again and again:
`WF(CronPass(t))` — a pass that keeps failing on every run could keep a
booking open, so for liveness the passes of the cron jobs are assumed to get through.
Time passes: `WF(DeadlinePasses)`, `WF(EventTimePasses)`. No request, customer
payment or provider answer is fair: nobody has to do anything.

`PackageFairSpec` asks the same for a purchase: requests in flight run on or die,
the package crons and those of the children pass again and again, a deadline
passes. `MembershipSpec`: `Ages` (24 hours pass), the 15-minute job starts and
writes the rows it found; no partner has to answer. `BackOfficeSpec`: a
notification in delivery goes on (`DeliverySteps`), a cache entry expires;
nobody has to ask for anything.

**Mutants.** For each property `PROJECT.json` names an operator that changes a
definition as a plausible mistake in the code would: any payment row counts as
paid, a client's word is enough, a failed payment can be retried, confirmed
bookings do not expire, a check is missing from a transaction, a look is not
repeated, the items of a counted service need not be given, a transition table
has one arrow more, and so on. TLC finds each property violated by its mutant.

**Disagreements between comments and code** (runs that end in a violation).

- `PaidBookingStarts`: `markPaid` calls
  `progressBookingAndEvent(booking.eventId, booking.eventId)`
  (`payments.service.ts:275`); no booking has the event's id, so a booking paid
  through `markPaid` does not start. The comment at `bookings.service.ts:499`
  says it flips immediately.
- `PaidIsNotCancelled`: the expiry pass decides on the rows read at its start
  and cancels a booking paid meanwhile; the comment at
  `booking-cleanup.service.ts:53` claims the race is covered.
- `RunningEventStaysOn`: `rejectQuote` writes DRAFT while another booking is
  undecided, also over an event a paid booking has put IN_PROGRESS;
  `bookings.service.ts:174` says "stays DRAFT". The counterexample needs three
  bookings: one paid and running, one rejected, one undecided.

## 5. Proofs

All proofs are for any constants that satisfy the `ASSUME` of their module:
any bookings, services, requests in flight, seconds, files, endpoints called and
threads that fail. The assumptions are few: ids of events and bookings differ and the cron threads
are not workers (`EventBookings`, `PackageBookings`); finite sets where a
cardinality is taken, capacities, bounds, seconds and versions that are numbers, items of an order that are positive, null
values that are no member of their type (`AvailabilityAssumption`,
`CatalogueAssumption`, `FilesAssumption`, `AccountsAssumption`,
`AfterSalesAssumption`, `MembershipAssumption`); every event of the bus has a
handler (`EveryEventHandled`, which TLC evaluates). The bounds of the runs
(`MaxRequests`, `MaxServices`, ...) are any natural number there.

| Theorem | Module | States |
|---|---|---|
| `TypeCorrect` | `EventBookingsProofs` | `Spec => []TypeOK` |
| `ChargedOnce`, `PaidIsVerified` | `EventBookingsProofs` | `Spec => []` `ChargedAtMostOnce`, `VerifiedBeforePaid` |
| `PaymentIsAGate` | `EventBookingsPaidProofs` | `Spec => []PaidGate` |
| `EventStartNeedsPayment` | `EventBookingsPaidProofs` | `Spec => []EventStartedIsPaid` |
| `UnpaidKeepsDeadline` | `EventBookingsPaidProofs` | `Spec => []NoDeadlineMeansPaid` |
| `ImplementsGate` | `EventBookingsPaidProofs` | `Spec => ImplementsPaymentGate` |
| `PackageTypeCorrect` | `PackageBookingsProofs` | `PackageSpec => []PackageTypeOK` |
| `ServicesRunPaid`, `PurchaseStartsPaid`, `PaymentIsReceived` | `PackageBookingsProofs` | `PackageSpec => []` `ServiceRunsPaid`, `PurchaseStartIsPaid`, `PurchasePaymentReceived` |
| `SlotsAreFreed` | `PackageBookingsProofs` | `PackageSpec => []ClosedPurchaseFreesSlots` |
| `WindowOpensOnce` | `PackageBookingsProofs` | `PackageSpec => OnePaymentWindow` |
| `ImplementsPurchase` | `PackageBookingsProofs` | `PackageSpec => ImplementsPurchaseGate` |
| `WithinWindowIsCovered`, `OverlapIsASharedMinute` | `AvailabilityProofs` | what `isRangeWithinWindow` and `rangesOverlap` answer, in minutes |
| `BookedInsideHours`, `BookedOutsideBlocks` | `AvailabilityProofs` | `Spec => []InsideHours`, `Spec => OutsideBlocks` |
| `CapacityIsKept`, `SlotCapacityIsKept`, `NothingIsBookedTwice` | `AvailabilityProofs` | `Spec => []` `CapacityHolds`, `SlotCapacityHolds`, `NoDoubleBooking` |
| `DailyCapacityIsKept` | `AvailabilityProofs` | `Spec => []DailyCapacityHolds` |
| `RowsTyped` | `AvailabilityProofs` | `Spec => []TypeOK` |
| `SoldServicesAreComplete`, `RejectedAreOffSale`, `ReviewsAreListed` | `CatalogueProofs` | `ProviderSideSpec => []` `ActiveIsComplete`, `RejectedIsOffSale`, `UnderReviewHasRequest` |
| `ProviderSideTypes`, `ShownFilesAreThere` | `FilesProofs` | `ProviderSideSpec => []` `ProviderSideTypeOK`, `FilesAreThere` |
| `TokensRotateOnce`, `ClosingFollowsTheRules`, `RatingsAreOfReviews` | `BackOfficeProofs` | `BackOfficeSpec => []` `RotationIsOnce`, `ClosedFollowsTheRules`, `RatingIsOfReviews` |
| `RowsAreTyped`, `LiveDevicesAreKept` | `BackOfficeProofs` | `BackOfficeSpec => []BackOfficeTypeOK`, `BackOfficeSpec => LiveDevicesStay` |
| `MembershipTypes`, `ActivePartnersConsented` | `PackageMembershipProofs` | `MembershipSpec => []` `MembershipTypeOK`, `PartnersConsented` |
| `HallStaysInPackage` | `PackageMembershipProofs` | `MembershipSpec => OwnerHallStays` |

Every safety property that a passing run checks is a theorem, both refinements
included.

**EventBookings.** Three layers and one invariant beside them, each with one lemma per group
of actions.

1. `TypeInv` is `TypeOK` with `NotesOK`: what a handler remembers has the kind
   its next call needs (the payment method it will write, the status it will give the
   event). `TypeOK` alone is not inductive, since `rqCommit` writes `note` into
   the event and `payRow` writes it into the payment.
2. `PaidInv` adds what a handler in the middle of its work *knows*
   (`JobBacked`): the ids `tryProgressEvent` has already found paid are paid,
   what `progressBookingAndEvent` is called for is paid, a booking about to be
   completed is paid, a pass of `completePastEvents` saw an event that has a
   paid booking; and a booking that is named or has a payment exists. `PaidGate`
   is not inductive without it, because the write that starts a service does not
   look at the payment again. `JobBacked` survives the steps of the other
   threads because the set of paid bookings only grows: `paidAt` is never
   cleared, not even by a refund or a late FAILED.
3. `GateInv` adds that an event that is on has a started booking, and that
   `completePastEvents` and `bulkQuoteDecision` keep that true half way. With it each
   action is a step of `PaymentGate` (`GateClears`, `GateStarts`,
   `GateSwitches`) or stutters (`GateUnchanged`).
4. `MoneyInv` (beside the layers, on `TypeInv`) is about the gateway. A charge
   is made at the end of several calls, so `ChargedAtMostOnce` needs that the
   booking of a handler between them has not been charged yet and has no intent
   (`Fresh`), and that no two handlers are between these calls for one booking:
   the unique key of the payment row lets one `createPayment` pass.
   `VerifiedBeforePaid` needs that a `markPaid` on its way is for cash or for a
   booking the gateway has taken the money of (`MoneyJob`).

`TypeInv`, `PaidInv` and `MoneyInv` were model-checked as invariants before they
were proved.

**PackageBookings.** A step of a child is a step of `EventBookings`
(`ChildIsNext`), so the lemmas about its actions are used as they stand. Its
invariants are not simply inherited: a service of a package may run without a
payment of its own. `PackageInv` is the conjunction of

- `PackageTypeInv`, the types of both layers and the notes of the handlers;
- `PlacedInv`: before `bookPackage` nothing has happened, afterwards every
  service has its booking. Without it a handler could close a purchase whose
  children are still to come;
- `QuotesInv` and `HeldInv`: a child that leaves its package price was quoted, and
  a handler about to confirm one knows it. So of the children of a closed
  purchase only a quoted one can come to wait in a slot. `QuotesInv` also says
  that what a bulk decision accepts and what it rejects are disjoint;
- `StartsInv` and `RunningInv`: a handler that goes on to start a booking by
  itself has seen the booking's own payment, whatever has become of the purchase.
  So of the children that run while the purchase does not, each was quoted, paid
  for by itself, or left running by a late closing (`overrun`).
  `ClosedPurchaseFreesSlots` is `HeldInv` and `RunningInv`;
- `BillInv` and `ReceivedInv`: no bill, no payment and no window; an intent that
  succeeded, or a handler that goes on from it, means money was received;
- `PurchaseInv`: as long as the purchase has not been paid, `PaidInv` holds of the
  children as in `EventBookings`; a handler that is about to start the purchase
  or to complete it knows who paid (`PurchaseJob`), and so does the job that
  settles finished purchases from a snapshot. No step takes a payment back.

`OnePaymentWindow` follows from `BillInv`: a window that has passed belongs to a
bill, and with a bill a second acceptance is refused.

`ImplementsPurchase` maps each step, under `PackageInv`, to one of three of
`PurchaseGate` (`PromiseClears`, `PromiseStarts`, `PromiseSwitches`). A step of a
child clears payments and leaves `running` as it was, or starts children, or
does neither (`ChildMoves`). That a payment switches nothing needs an argument for
the bulk decision, which writes payments and the event at once: a decision that
pays for something has confirmed it, and confirms nothing it rejects, so it leaves
the event as it was (`ChildPays`). That what starts is covered is
`ChildStarts` for the tails of `markPaid` and `confirmQuote`, and
`PurchaseStarts` for the purchase's own progression, where each child is covered
by the bill or, one read after the other, by its own payment.

**Availability.** `isRangeWithinWindow` compares ends that were moved past
midnight; that it then covers every minute is arithmetic with two cases for the
event and two for the window. `InsideHours` is inductive with `Placed`, which
says that every row was placed by a selection whose hours it was checked against.

The capacities, the slots' capacities, the daily quantities and *one booking of
a service per customer and day* are one invariant, `LimitsHold`. The first, second and
fourth each limit the rows that fall into some set: `Quotas` is the family of
these sets with their limits, and none has more rows than its limit. The third
bounds a sum over rows, `Load`. Both are kept because a row is appended only
when everything it falls into was counted in the same transaction
(`AdmittedFits`, `FitsAppends`), a row that is cancelled or completed leaves, and one that a
late write brings back is marked `revived` and takes nothing
(`ChangesTakeNothing`). `OneByOne` carries this over the services of one request. `createEvent`
counts the rows it has just made; `bookPackage` does not, but the services of a
package differ, so its rows do not get into each other's way
(`OtherServicesFit`).

The sums are folds of the community modules, which choose the order in which
they visit a set. `IsSum` says what such a fold is, for any choice, and three facts
about it are proved by induction on the subsets of a finite set (a smallest
counterexample, from the well-founded order on their cardinalities:
`SubsetsOneByOne`): it is a number, an element adds its value to it whenever it was
chosen, and it is at most the sum over more or larger elements
(`Sums`, `SumAdds`, `SumGrows`). `Total`, the code's sum over the items of an
order, is such a fold too, and at least the largest item (`TotalCovers`,
`LargestItem`); that is why the check of one item against all that was ordered
keeps `DailyCapacityHolds`, which counts the largest.

`OnePurchase` is *one open purchase* for packages. `TablesTyped` adds the shapes
of the purchases and blocks, which needs `MaxBlocks` to be a number.
`OutsideBlocks` is an action property: every appended row was held against the
blocks as they are before the step.

**Catalogue.** `ActiveIsComplete` is not inductive: an approved update makes
ACTIVE a service the admin's handler looked at long before. `CatalogueInv` adds
`UpdatesArePrepared` (a service with an update request, or that a handler is about to
file one for, has its details or is gone for good), `JobsOK` (a review works on the request it
found, of the right kind) and `NewIsOffSale`. `UnderReviewHasRequest` holds because
the writes that freeze and the writes that decide touch the request and the row
in one transaction.

**Files.** `FilesInv` says that a file is in one place: with the profile, with
the media, held by the one request that uploaded it, or offered by an undecided
change request (`OnePlace`); that it has one row unless it is `doubled`
(`OneRow`); and that it is stored unless it is lost or a request has its row in hand
(`ThereOrAway`). Destroying a file then cannot hit one that another row shows.

**BackOffice.** A step of one part leaves the tables of the others alone, so each
has invariants of its own; `BackInv` is all of them. `TokenInv` keeps accounts
(`Accounted`): of a token string, the pairs issued for it, the rows a logout took,
the row in the table and the requests that took one out and have not yet issued
the new pair are together no more than the rows ever stored. A delete moves one
from the table to a request, since the delete by the unique value succeeds once;
an insert adds one on both sides. `UserInv`: a request that
will end in a session or set a password found the account (`NeedsUser`), which
is never deleted. `NoticeInv`: the tokens a push reported were sent to and are
dead, and stay dead until the cleaning takes them out. The cleaning keeps the
order of the rest, as a function of the places that are kept, and `PlacesTaken`
shows with the pigeonhole principle that this loses and doubles none; so
`LiveDevicesStay` holds although the cleaning works with an old list. `DeskInv`:
what a handler is about to write was allowed for a status the row *had*, and a
count in hand is at least one and at most one more than the reviews committed.
`RowsInv`: what is cached, or about to be, is a version the table of service
types has had.

**PackageMembership.** `MemberInv` has the unique key of `PackageService` (a
service has one live row), jobs that name rows that exist, and `NothingYet`
(before the package exists nothing is asked of it); and that some acceptance is
behind every active row of a partner (`Accepted`): a row is never used for a
second invitation, the acceptance writes the row it found by its id, and if that
row was deleted and made again meanwhile, nothing is written. `RequestsInv` is
about requests that cross. The terms a request remembers, and those a row was
agreed to, are at most the row's (`AgreedToTerms`), because a row is only ever
asked again. The two give `PartnersConsented`.

`OwnerHallStays` needs that an invitation is never to a service of the
owner, so no answer of a partner and no expiry is about one, in the table, in
the list the job holds (`stale`) or in the hand of a handler (`Remembers`); and what
an update removes was refused if it contained a hall. What it removes it
remembers as services, and a row never changes its service, so the check is not
stale when the update commits.

**Only model-checked:** the liveness properties, which need fairness and
ENABLED: `UnpaidExpires`, `EventEnds`, `UnpaidPurchaseEnds`,
`RunningPurchaseEnds`, `InvitationsEnd`, `NotificationsSettle`,
`TypesCacheCatchesUp`.

## 6. Not modelled

- Plain records nothing else depends on: favorites, suggested packages, the
  bank account, text fields of profiles, `setArchived`; replies to complaints.
  `toggleServiceAvailability` changes nothing.
- Read-only queries: searches, listings, dashboards, reports.
- Money: the price of a booking or package, discount percentages and rounding,
  discount codes and the overlap of their dates. The models say whether
  something was paid, not how much.
- HTTP wiring, guards, validation of DTOs, seeds, the text of notifications.
- Whether a booking forbids blocking a user or editing a service
  (`EngagementService`) is a free choice of the models: it is read before the
  write and may have changed by then.

Known to be wrong in the code but not stated as a property, because the code
makes no promise about it, or exempted by name in the properties above:

- A payment confirmed by one request can be overwritten by the FAILED of
  another; a crash between a charge and `markPaid` leaves the money taken and
  the payment PROCESSING; `cancelEvent` can cancel a booking that was paid
  after its check; a crash after the confirmation leaves a booking without its
  delivery row.
- `payPackageBooking` marks a transfer PAID, and starts the purchase, when it gets
  no intent. The comment at `packages.service.ts:1717` means a server without a
  gateway, but `createIntent` also returns none when Stripe fails
  (`stripe-payment-gateway.service.ts:60`): `assumed`.
- A cancellation read before the purchase was paid, or an expiry of its request
  found before, commits over a purchase that has been started, and takes only
  PENDING and CONFIRMED children (`packages.service.ts:1692`): the purchase is
  CANCELLED and its children run (`overrun`). A rejected purchase whose intent
  succeeded can be confirmed, and is put IN_PROGRESS with its children cancelled.
- A purchase that was paid stays PENDING_PAYMENT if the handler dies before it
  starts the purchase, and always when its card payment is confirmed through
  `PaymentsService.confirmPayment`: `markPaid` looks for a booking, which the
  payment of a purchase does not have (`payments.service.ts:246`). No job looks
  for such purchases.
- A partner's acceptance that was found before the discount changed is written
  after it, over the reset (`packages.service.ts:703`): the service is in on terms
  its provider was not shown. The comment at `packages-cron.service.ts:19` says that
  such rows change only by an answer, so that nothing races.
- A code is verified twice if both requests read it before either deletes it
  (`otp.service.ts:66`), against "one-time use" at `otp.service.ts:76`. Two sessions
  of one account begun in one second sign the same refresh token
  (`token.helper.ts:25`): the second login fails on the unique key, and a token
  exchanged in the second it was signed in comes back as itself.
- `acceptPackageBooking` does not renew the children's deadline, so
  `handleExpiredBookings` can cancel children of an accepted purchase; a child
  that was quoted outlives its purchase; two `payPackageBooking` calls leave
  two payable intents; the discount of a purchase is written after its
  transaction (`packages.service.ts:1642`), so an accept in between bills the
  full amount.
- A late write that revives a cancelled booking, or a completed one (which
  `bookPackage` does not count), takes a place no check can refuse; two items of one order for the same sub-service do not see each
  other (`event.service.ts:327`); the part of a booking after midnight is not
  held against the blocks of the next day.
- `approveServiceUpdate` replaces time slots under existing bookings
  (`admin-approval-service.service.ts:637`); two admins approving one update
  create two rows of one file (`:767`).
- An update of a package that resets old rows leaves their `createdAt`, so the
  new invitations can expire at once; two racing leaves can keep a package
  ACTIVE with too few services.
- `completeFinishedPackageBookings` compares hours only
  (`packages-cron.service.ts:57`): an event from 22:30 to 22:15 is over before
  it starts. `cancelByAdmin` passes the creator as the actor
  (`discounts.service.ts:229`), so its notice is never sent. Two reviews that
  commit at once leave a rating that counts only one of them.
