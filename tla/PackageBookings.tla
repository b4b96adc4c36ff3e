--------------------------- MODULE PackageBookings ---------------------------
(***************************************************************************)
(* One purchase of a package, on top of module EventBookings: the purchase *)
(* (PackageEventBooking) is the parent of one booking per service of the   *)
(* package, has a payment of its own, and is driven by the package owner,  *)
(* the customer and the jobs of PackagesCronService.                       *)
(*                                                                         *)
(* None of the endpoints of EventBookings leaves package children out, so  *)
(* its actions are taken here as they are, on the children; only the tail  *)
(* of markPaid differs.  Steps are cut as there: one database or gateway   *)
(* call each, with what the handler remembers in job.                      *)
(***************************************************************************)
EXTENDS EventBookings

CONSTANTS
  PackageRequests,  \* the package endpoints called in a run (a bound of the model)
  ChildCrons,       \* the jobs of EventBookings that run (a bound of the model)
  MaxRequests,      \* requests that get past their checks in a run (a bound)
  Intents           \* payment intents the gateway can open for the purchase (a bound)

PackageEndpoints == {"acceptPackageBooking", "rejectPackageBooking",
                     "cancelPackageBooking", "payPackageBooking",
                     "confirmPackageCashPayment", "confirmPackageCardPayment",
                     "confirmPayment", "completePackageBooking",
                     "refundPackagePayment"}
PackageCrons == {"completeFinished", "expirePending", "expireUnpaid"}

ASSUME PackageConstantsAssumption ==
  /\ PackageRequests \subseteq PackageEndpoints
  /\ Intents \intersect {"none", "mock"} = {}
  /\ ChildCrons \subseteq Crons
  /\ MaxRequests \in Nat

VARIABLES
  purchase,          \* PackageEventBooking.status, "NONE" before the row exists
  pendingExpiresAt,  \* against the clock, as deadline
  paymentExpiresAt,
  bill,              \* the purchase's row of Payment
  intents,           \* at the gateway: the intents of that payment
  received,          \* how the money reached the owner, whatever the rows say
  assumed,           \* history: a transfer was taken as paid, and no money moved
  overrun,           \* history: children that ran when a late closing left them running
  pass,              \* the package jobs that hold the purchase in their snapshot
  requests           \* how many requests got past their checks

purchaseVars == <<purchase, pendingExpiresAt, paymentExpiresAt>>
billVars     == <<bill, intents, received, assumed>>
packageVars  == <<purchaseVars, billVars, overrun, pass>>
pvars        == <<vars, packageVars, requests>>

PurchaseStatus == {"PENDING", "CONFIRMED", "PENDING_PAYMENT", "IN_PROGRESS",
                   "COMPLETED", "REJECTED", "CANCELLED", "EXPIRED"}

Bill(s, m, ref, paid) == [status |-> s, method |-> m, ref |-> ref, paidAt |-> paid]
NoBill                == Bill("NONE", "NONE", "none", FALSE)

PackageInit ==
  /\ Init
  /\ purchase         = "NONE"
  /\ pendingExpiresAt = "none"
  /\ paymentExpiresAt = "none"
  /\ bill             = NoBill
  /\ intents          = [i \in Intents |-> "none"]
  /\ received         = {}
  /\ assumed          = FALSE
  /\ overrun          = {}
  /\ pass             = [c \in PackageCrons |-> FALSE]
  /\ requests         = 0

-----------------------------------------------------------------------------
(* A request for the purchase reads the whole purchase, checks it and goes  *)
(* on to its first write or gateway call.                                   *)
Request(t, e, pc, note) ==
  /\ t \in Workers
  /\ e \in PackageRequests
  /\ At(t, "idle")
  /\ Continue(t, Task(pc, EventId, {}, {}, note))
  /\ UNCHANGED <<rowVars, packageVars>>

(* The status of the purchase and of its children in one transaction. *)
Settle(p, from, to) ==
  /\ purchase' = p
  /\ status' = WriteAll(status, WithStatus(from), to)

(* What a closing that takes no running child leaves behind if the purchase *)
(* has been started since it was read.                                      *)
LeftRunning ==
  IF purchase = "IN_PROGRESS" THEN overrun \union WithStatus({"IN_PROGRESS"}) ELSE overrun

ChildrenKeepTheRest == UNCHANGED <<deadline, quoted, delivery, paymentVars, gatewayVars>>

(* bookPackage: the event, the purchase and a child per service. *)
BookPackage ==
  /\ event = "NONE"
  /\ event' = "DRAFT"
  /\ InsertBookings(Bookings)
  /\ purchase' = "PENDING"
  /\ pendingExpiresAt' = "future"
  /\ UNCHANGED <<eventTime, paymentVars, gatewayVars, delivery, job,
                 paymentExpiresAt, billVars, overrun, pass>>

AcceptPackageBooking(t) ==
  /\ purchase = "PENDING"
  /\ Request(t, "acceptPackageBooking", "paCommit", "NONE")

(* Mutant: the payment row is written over instead of created. *)
AcceptNeverConflicts == FALSE

(* Payment.packageEventBookingId is unique: a second accept rolls back. *)
AcceptConflicts == bill.status # "NONE"

AcceptCommit(t) ==
  /\ At(t, "paCommit")
  /\ Finish(t)
  /\ IF AcceptConflicts
     THEN UNCHANGED <<rowVars, packageVars>>
     ELSE /\ Settle("PENDING_PAYMENT", {"PENDING"}, "CONFIRMED")
          /\ paymentExpiresAt' = "future"
          /\ bill' = Bill("PENDING", "CASH", "none", FALSE)
          /\ ChildrenKeepTheRest
          /\ UNCHANGED <<acceptedAt, eventVars, pendingExpiresAt, intents, received,
                         assumed, overrun, pass>>

RejectPackageBooking(t) ==
  /\ purchase \in {"PENDING", "CONFIRMED", "PENDING_PAYMENT"}
  /\ Request(t, "rejectPackageBooking", "prCommit", "NONE")

RejectCommit(t) ==
  /\ At(t, "prCommit")
  /\ Settle("REJECTED", {"PENDING", "CONFIRMED", "IN_PROGRESS"}, "CANCELLED")
  /\ Finish(t)
  /\ ChildrenKeepTheRest
  /\ UNCHANGED <<acceptedAt, eventVars, pendingExpiresAt, paymentExpiresAt, billVars, overrun, pass>>

(* note: the status of the payment the handler has read. *)
CancelPackageBooking(t) ==
  /\ \/ purchase = "PENDING"
     \/ purchase = "PENDING_PAYMENT" /\ bill.status # "PAID"
  /\ Request(t, "cancelPackageBooking", "pcCommit", bill.status)

CancelPackageCommit(t) ==
  /\ At(t, "pcCommit")
  /\ Settle("CANCELLED", {"PENDING", "CONFIRMED"}, "CANCELLED")
  /\ bill' = IF job[t].note = "NONE" THEN bill ELSE [bill EXCEPT !.status = "CANCELLED"]
  /\ overrun' = LeftRunning
  /\ Finish(t)
  /\ ChildrenKeepTheRest
  /\ UNCHANGED <<acceptedAt, eventVars, pendingExpiresAt, paymentExpiresAt,
                 intents, received, assumed, pass>>

-----------------------------------------------------------------------------
(* The payment of the purchase.                                             *)

BillWrite(t, pc, b) ==
  /\ At(t, pc)
  /\ bill' = b
  /\ UNCHANGED <<rowVars, purchaseVars, intents, overrun, pass>>

PayPackageBooking(t, m) ==
  /\ purchase = "PENDING_PAYMENT"
  /\ bill.status \notin {"NONE", "PAID"}
  /\ Request(t, "payPackageBooking", IF m = "CASH" THEN "ppCash" ELSE "ppIntent", "NONE")

(* Every call opens a new intent; without a gateway, or when the gateway    *)
(* fails, createIntent returns none.                                        *)
PackageCreateIntent(t) ==
  /\ At(t, "ppIntent")
  /\ \/ \E i \in Intents :
          /\ intents[i] = "none"
          /\ intents' = [intents EXCEPT ![i] = "created"]
          /\ Continue(t, Task("ppIntentRow", EventId, {}, {}, i))
     \/ Continue(t, On("ppMock", EventId)) /\ UNCHANGED intents
  /\ UNCHANGED <<rowVars, purchaseVars, bill, received, assumed, overrun, pass>>

(* The client gets the intent's secret with the answer to this write. *)
PackageIntentRow(t) ==
  /\ At(t, "ppIntentRow")
  /\ bill' = Bill("PROCESSING", "BANK_TRANSFER", job[t].note, bill.paidAt)
  /\ intents' = [intents EXCEPT ![job[t].note] = "open"]
  /\ Finish(t)
  /\ UNCHANGED <<rowVars, purchaseVars, received, assumed, overrun, pass>>

(* Without an intent the transfer is taken as paid. *)
PackageMockPaid(t) ==
  /\ BillWrite(t, "ppMock", Bill("PAID", "BANK_TRANSFER", "mock", TRUE))
  /\ assumed' = TRUE
  /\ Continue(t, On("pkProgress", EventId))
  /\ UNCHANGED received

(* Mutant: the customer's choice of cash starts the services. *)
CashChosenStarts(t) == Continue(t, On("pkProgress", EventId))

CashChosenWaits(t) == Finish(t)

PackageCashChosen(t) ==
  /\ BillWrite(t, "ppCash", [bill EXCEPT !.status = "PROCESSING", !.method = "CASH"])
  /\ CashChosenWaits(t)
  /\ UNCHANGED <<received, assumed>>

(* At the gateway: the customer completes the Payment Sheet of an intent. *)
CustomerPaysPackage(i) ==
  /\ intents[i] = "open"
  /\ intents' = [intents EXCEPT ![i] = "succeeded"]
  /\ received' = received \union {"card"}
  /\ UNCHANGED <<vars, purchaseVars, bill, assumed, overrun, pass>>

(* The owner says that the customer handed over the cash; markCashPaid on   *)
(* the payment of a purchase ends up here too.                              *)
ConfirmPackageCashPayment(t) ==
  /\ purchase = "PENDING_PAYMENT"
  /\ bill.method = "CASH"
  /\ bill.status = "PROCESSING"
  /\ Request(t, "confirmPackageCashPayment", "pkCash", "NONE")

PackageCashPaid(t) ==
  /\ BillWrite(t, "pkCash", [bill EXCEPT !.status = "PAID", !.paidAt = TRUE])
  /\ received' = received \union {"cash"}
  /\ Continue(t, On("pkProgress", EventId))
  /\ UNCHANGED assumed

ConfirmPackageCardPayment(t) ==
  /\ bill.status = "PROCESSING"
  /\ bill.ref # "none"
  /\ Request(t, "confirmPackageCardPayment", "pkVerify", bill.ref)

(* PaymentsService.confirmPayment takes the payment of a purchase as well.  *)
ConfirmPurchasePayment(t) ==
  /\ bill.status = "PROCESSING"
  /\ bill.ref # "none"
  /\ Request(t, "confirmPayment", "pyVerify", bill.ref)

(* Mutant: the client's word is enough once there is an intent. *)
PackageIntentExists(ref) == ref \in Intents

PackageIntentSucceeded(ref) == ref \in Intents /\ intents[ref] = "succeeded"

VerifyIntent(t, pc, paid) ==
  /\ At(t, pc)
  /\ \/ /\ PackageIntentSucceeded(job[t].note)
        /\ Continue(t, Task(paid, EventId, {}, {}, job[t].note))
     \/ Continue(t, On("pkFailed", EventId))
  /\ UNCHANGED <<rowVars, packageVars>>

PackageVerifyIntent(t)  == VerifyIntent(t, "pkVerify", "pkCard")
PurchaseVerifyIntent(t) == VerifyIntent(t, "pyVerify", "pyPaid")

CardWrite(t, pc) ==
  /\ BillWrite(t, pc, [bill EXCEPT !.status = "PAID", !.paidAt = TRUE, !.ref = job[t].note])
  /\ UNCHANGED <<received, assumed>>

PackageCardPaid(t) == CardWrite(t, "pkCard") /\ Continue(t, On("pkProgress", EventId))

(* markPaid looks for the booking of the payment; a purchase's has none, so *)
(* the handler throws after its first write and starts nothing.             *)
PurchaseMarkPaid(t) == CardWrite(t, "pyPaid") /\ Finish(t)

PackageCardFailed(t) ==
  /\ BillWrite(t, "pkFailed", [bill EXCEPT !.status = "FAILED"])
  /\ Finish(t)
  /\ UNCHANGED <<received, assumed>>

RefundPackagePayment(t) ==
  /\ bill.status = "PAID"
  /\ Request(t, "refundPackagePayment", "pkRefund", "NONE")

PackageRefunded(t) ==
  /\ BillWrite(t, "pkRefund", [bill EXCEPT !.status = "REFUNDED"])
  /\ Finish(t)
  /\ UNCHANGED <<received, assumed>>

-----------------------------------------------------------------------------
(* Progression and completion.                                              *)

Advanced(S) ==
  /\ status' = WriteAll(status, S, "IN_PROGRESS")
  /\ acceptedAt' = WriteAll(acceptedAt, S, TRUE)

(* Once the purchase is paid for; nothing is checked again. *)
ProgressPackageToInProgress(t) ==
  /\ At(t, "pkProgress")
  /\ purchase' = "IN_PROGRESS"
  /\ Advanced(WithStatus({"CONFIRMED"}))
  /\ event' = "IN_PROGRESS"
  /\ Finish(t)
  /\ ChildrenKeepTheRest
  /\ UNCHANGED <<eventTime, pendingExpiresAt, paymentExpiresAt, billVars, overrun, pass>>

(* The tail of markPaid for a child: the deadline, then the purchase. *)
ChildPaidDeadline(t) ==
  /\ At(t, "mpDeadline")
  /\ deadline' \in {deadline, [deadline EXCEPT ![job[t].b] = "none"]}
  /\ Continue(t, On("tgRead", EventId))
  /\ UNCHANGED <<status, quoted, acceptedAt, eventVars, paymentVars, gatewayVars,
                 delivery, packageVars>>

Settled(b) ==
  \/ status[b] \in TERMINAL_STATUSES \union {"IN_PROGRESS"}
  \/ status[b] = "CONFIRMED" /\ IsPaid(b)

ToAdvance == {b \in WithStatus({"CONFIRMED"}) : IsPaid(b)}

TryProgressPackageRead(t) ==
  /\ At(t, "tgRead")
  /\ IF /\ purchase \in {"CONFIRMED", "PENDING_PAYMENT"}
        /\ \A b \in Present : Settled(b)
        /\ ToAdvance # {}
     THEN Continue(t, Task("tgCommit", EventId, ToAdvance, {}, event))
     ELSE Finish(t)
  /\ UNCHANGED <<rowVars, packageVars>>

TryProgressPackageCommit(t) ==
  /\ At(t, "tgCommit")
  /\ Advanced(job[t].ids)
  /\ purchase' = "IN_PROGRESS"
  /\ event' = IF job[t].note = "DRAFT" THEN "IN_PROGRESS" ELSE event
  /\ Finish(t)
  /\ ChildrenKeepTheRest
  /\ UNCHANGED <<eventTime, pendingExpiresAt, paymentExpiresAt, billVars, overrun, pass>>

CompletePackageBooking(t) ==
  /\ purchase = "IN_PROGRESS"
  /\ Request(t, "completePackageBooking", "pdCommit", "NONE")

(* Shared by the owner's completion and the job's. *)
Complete ==
  /\ Settle("COMPLETED", {"IN_PROGRESS"}, "COMPLETED")
  /\ event' = "COMPLETED"
  /\ ChildrenKeepTheRest
  /\ UNCHANGED <<acceptedAt, eventTime, pendingExpiresAt, paymentExpiresAt, billVars, overrun>>

CompletePackageCommit(t) ==
  /\ At(t, "pdCommit")
  /\ Complete
  /\ Finish(t)
  /\ UNCHANGED pass

-----------------------------------------------------------------------------
(* The jobs of PackagesCronService.  Each finds its purchases in one query  *)
(* and settles each in a transaction of its own, without a second look.     *)

PendingExpired == purchase = "PENDING" /\ pendingExpiresAt = "passed"

(* Mutant: a payment that was begun keeps the purchase open. *)
UntouchedExpired ==
  purchase = "PENDING_PAYMENT" /\ paymentExpiresAt = "passed" /\ bill.status = "PENDING"

UnpaidExpired ==
  purchase = "PENDING_PAYMENT" /\ paymentExpiresAt = "passed" /\ bill.status # "PAID"

(* Mutant: the job looks for events that still run. *)
FinishedRunning ==
  purchase = "IN_PROGRESS" /\ event = "IN_PROGRESS" /\ eventTime = "past"

Finished == purchase = "IN_PROGRESS" /\ eventTime = "past"

Found(c) ==
  \/ c = "completeFinished" /\ Finished
  \/ c = "expirePending" /\ PendingExpired
  \/ c = "expireUnpaid" /\ UnpaidExpired

Pass(c) ==
  /\ ~pass[c]
  /\ Found(c)
  /\ pass' = [pass EXCEPT ![c] = TRUE]
  /\ UNCHANGED <<vars, purchaseVars, billVars, overrun>>

PassDone(c) == pass[c] /\ pass' = [pass EXCEPT ![c] = FALSE] /\ UNCHANGED job

CompleteFinished == PassDone("completeFinished") /\ Complete

(* Mutant: a child the owner has accepted meanwhile is left open. *)
ExpireLeavesConfirmed == {"PENDING"}

ExpirePendingCancels == {"PENDING", "CONFIRMED"}

ExpirePending ==
  /\ PassDone("expirePending")
  /\ Settle("EXPIRED", ExpirePendingCancels, "CANCELLED")
  /\ overrun' = LeftRunning
  /\ ChildrenKeepTheRest
  /\ UNCHANGED <<acceptedAt, eventVars, pendingExpiresAt, paymentExpiresAt, billVars>>

(* Mutant: the payment gets the status of an expired purchase. *)
ExpiredBill == "EXPIRED"

UnpaidBill == "CANCELLED"

ExpireUnpaid ==
  /\ PassDone("expireUnpaid")
  /\ Settle("CANCELLED", {"PENDING", "CONFIRMED", "IN_PROGRESS"}, "CANCELLED")
  /\ bill' = [bill EXCEPT !.status = UnpaidBill]
  /\ ChildrenKeepTheRest
  /\ UNCHANGED <<acceptedAt, eventVars, pendingExpiresAt, paymentExpiresAt, intents, received,
                 assumed, overrun>>

(* The clock.  To keep the state space small a time passes only while some  *)
(* query looks at it; nothing else in the model depends on it.              *)
PackageTimePasses ==
  /\ \/ /\ purchase = "PENDING"
        /\ pendingExpiresAt = "future"
        /\ pendingExpiresAt' = "passed"
        /\ UNCHANGED paymentExpiresAt
     \/ /\ purchase = "PENDING_PAYMENT"
        /\ paymentExpiresAt = "future"
        /\ paymentExpiresAt' = "passed"
        /\ UNCHANGED pendingExpiresAt
  /\ UNCHANGED <<vars, purchase, billVars, overrun, pass>>

-----------------------------------------------------------------------------
PackageCall(t) ==
  \/ AcceptPackageBooking(t) \/ RejectPackageBooking(t) \/ CancelPackageBooking(t)
  \/ \E m \in PaymentMethod : PayPackageBooking(t, m)
  \/ ConfirmPackageCashPayment(t) \/ ConfirmPackageCardPayment(t)
  \/ ConfirmPurchasePayment(t) \/ CompletePackageBooking(t) \/ RefundPackagePayment(t)

PackageAdvance(t) ==
  \/ AcceptCommit(t) \/ RejectCommit(t) \/ CancelPackageCommit(t)
  \/ PackageCreateIntent(t) \/ PackageIntentRow(t) \/ PackageMockPaid(t)
  \/ PackageCashChosen(t) \/ PackageCashPaid(t) \/ PackageVerifyIntent(t)
  \/ PurchaseVerifyIntent(t) \/ PackageCardPaid(t) \/ PurchaseMarkPaid(t)
  \/ PackageCardFailed(t) \/ PackageRefunded(t)
  \/ ProgressPackageToInProgress(t) \/ ChildPaidDeadline(t)
  \/ TryProgressPackageRead(t) \/ TryProgressPackageCommit(t)
  \/ CompletePackageCommit(t)

(* A step of EventBookings on the children. *)
ChildAdvance(t) == Advance(t) /\ ~At(t, "mpDeadline") /\ UNCHANGED packageVars

ChildStep ==
  /\ \/ \E t \in ChildCrons : CronPass(t)
     \/ \E t \in Threads : Fail(t)
     \/ \E b \in Bookings : CustomerPaysIntent(b)
     \/ \E b \in Expirable : DeadlinePasses(b)
  /\ UNCHANGED packageVars

EventNears ==
  /\ "IN_PROGRESS" \in {event, purchase}
  /\ EventTimePasses
  /\ UNCHANGED packageVars

(* A request to a child or to the purchase. *)
Receive(t) ==
  /\ requests < MaxRequests
  /\ requests' = requests + 1
  /\ \/ Call(t) /\ UNCHANGED packageVars
     \/ PackageCall(t)

Run ==
  \/ BookPackage
  \/ ChildStep
  \/ \E t \in Threads : ChildAdvance(t) \/ PackageAdvance(t)
  \/ \E i \in Intents : CustomerPaysPackage(i)
  \/ \E c \in PackageCrons : Pass(c)
  \/ CompleteFinished \/ ExpirePending \/ ExpireUnpaid
  \/ PackageTimePasses \/ EventNears

PackageNext ==
  \/ \E t \in Threads : Receive(t)
  \/ Run /\ UNCHANGED requests

PackageSpec == PackageInit /\ [][PackageNext]_pvars

(* As in EventBookings: handlers run on, jobs come back, time passes. *)
PackageFairness ==
  /\ \A t \in Threads : WF_pvars((ChildAdvance(t) \/ PackageAdvance(t)) /\ UNCHANGED requests)
  /\ \A t \in ChildCrons : WF_pvars(CronPass(t) /\ UNCHANGED <<packageVars, requests>>)
  /\ \A c \in PackageCrons : WF_pvars(Pass(c) /\ UNCHANGED requests)
  /\ WF_pvars(CompleteFinished /\ UNCHANGED requests)
  /\ WF_pvars(ExpirePending /\ UNCHANGED requests)
  /\ WF_pvars(ExpireUnpaid /\ UNCHANGED requests)
  /\ WF_pvars(PackageTimePasses /\ UNCHANGED requests)
  /\ WF_pvars(EventNears /\ UNCHANGED requests)

PackageFairSpec == PackageSpec /\ PackageFairness

-----------------------------------------------------------------------------
(* The rows of the purchase and of its children hold members of their enums. *)
PackageTypeOK ==
  /\ RowsTypeOK
  /\ purchase \in PurchaseStatus \union {"NONE"}
  /\ pendingExpiresAt \in {"none", "future", "passed"}
  /\ paymentExpiresAt \in {"none", "future", "passed"}
  /\ bill \in [status : PaymentStatus \union {"NONE"}, method : PaymentMethod \union {"NONE"},
               ref : Intents \union {"none", "mock"}, paidAt : BOOLEAN]
  /\ intents \in [Intents -> {"none", "created", "open", "succeeded"}]
  /\ received \subseteq {"cash", "card"}
  /\ assumed \in BOOLEAN
  /\ overrun \subseteq Bookings
  /\ pass \in [PackageCrons -> BOOLEAN]

(* A child's service runs or has been delivered only if somebody paid: the  *)
(* child's own payment or the one of the purchase, through whichever of the *)
(* four ways a child can be started.                                        *)
ServiceRunsPaid == \A b \in WithStatus(Started) : paidAt[b] \/ bill.paidAt

(* The purchase runs or is over, and its event is on, only after a payment. *)
PurchaseStartIsPaid ==
  purchase \in Started \/ event \in Started =>
    bill.paidAt \/ \E b \in Bookings : paidAt[b]

(* What the customer, the owner and the providers can rely on (module       *)
(* PurchaseGate): whichever of the endpoints and jobs clears a payment,     *)
(* starts a child or moves the purchase, it starts only what is covered at  *)
(* that moment, and no payment that cleared is ever taken back.             *)
Promise == INSTANCE PurchaseGate WITH
             Services <- Bookings,
             own      <- {b \in Bookings : paidAt[b]},
             whole    <- bill.paidAt,
             started  <- {b \in Bookings : acceptedAt[b]},
             running  <- purchase \in Started \/ event \in Started
ImplementsPurchaseGate == Promise!Spec

(* The payment of a purchase clears on the owner's word for cash or on the  *)
(* gateway's for a card, also when the customer switches methods or opens a *)
(* second intent while a confirmation runs.  The exception is the code's:   *)
(* payPackageBooking that gets no intent, because no gateway is connected   *)
(* or because it failed, writes PAID and nobody has paid (assumed).         *)
PurchasePaymentReceived == bill.paidAt => received # {} \/ assumed

HoldsSlot == WithStatus(PENDING_STATUSES \union {"CONFIRMED", "IN_PROGRESS"})

(* When the purchase is off, no child holds its slot any more, however the  *)
(* jobs, the owner's decision and the customer's cancellation met, except   *)
(* a child that left the package price behind by a quote, which no closing  *)
(* takes; one that runs because it was paid for by itself; and one the late *)
(* closing left running: a cancellation, or an expiry of the request, that  *)
(* was read before the purchase was started and commits after (overrun).    *)
ClosedPurchaseFreesSlots ==
  purchase \in {"REJECTED", "CANCELLED", "EXPIRED"} =>
    \A b \in HoldsSlot :
      quoted[b] \/ (status[b] = "IN_PROGRESS" /\ (paidAt[b] \/ b \in overrun))

(* The customer gets one payment window: two accepts of one request do not  *)
(* reopen a window that has passed.                                         *)
OnePaymentWindow == [][paymentExpiresAt = "passed" => paymentExpiresAt' = "passed"]_pvars

(* A request nobody answers, or nobody pays for, comes to an end, whatever  *)
(* requests died half way.                                                  *)
Unsettled ==
  purchase = "PENDING" \/ (purchase = "PENDING_PAYMENT" /\ ~bill.paidAt)
UnpaidPurchaseEnds == Unsettled ~> ~Unsettled

(* A purchase that runs comes to its end once the event is over. *)
RunningPurchaseEnds == purchase = "IN_PROGRESS" ~> purchase # "IN_PROGRESS"
=============================================================================
