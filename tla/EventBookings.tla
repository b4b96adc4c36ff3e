---------------------------- MODULE EventBookings ----------------------------
(***************************************************************************)
(* One event of a customer and its standalone bookings, from the creation  *)
(* of the event to its end: the quote negotiation with the providers, the  *)
(* payment of each booking, the two cleanup cron jobs.                     *)
(*                                                                         *)
(* The server is one Node process in front of one database.  A handler is  *)
(* an async function: it runs alone between two awaits and other handlers  *)
(* interleave at every await.  Each action below is therefore one database *)
(* or gateway call of one handler with the code that follows it up to the  *)
(* next await; what the handler remembers in between is its entry of job.  *)
(* A $transaction is one action (its reads and writes commit together).    *)
(* A handler whose first guard fails throws and changes nothing, so only   *)
(* the successful read is an action.                                       *)
(*                                                                         *)
(* Bookings of different events share no state, so one event is enough.    *)
(* Package bookings are not here.                                          *)
(***************************************************************************)
EXTENDS Naturals, FiniteSets

CONSTANTS
  Bookings,     \* the bookings the event can ever hold
  Deliverable,  \* those whose service type has requiresDeliveryByDefault
  EventId,      \* the id of the event; ids are uuids, so no booking has it
  Workers,      \* HTTP requests in flight at a time (a bound of the model)
  Requests,     \* the endpoints that are called in a run (a bound of the model)
  Faulty        \* the threads that can die between two calls

(* The two @Cron jobs are threads of their own: each runs one pass at a time. *)
Crons   == {"handleExpiredBookings", "completePastEvents"}
Threads == Workers \union Crons

Endpoints == {"addServiceToEvent", "cancelEvent", "sendQuote", "rejectBooking",
              "completeBooking", "confirmQuote", "rejectQuote",
              "bulkQuoteDecision", "createPayment", "confirmPayment",
              "markCashPaid", "refundPayment"}

ASSUME ConstantsAssumption ==
  /\ Deliverable \subseteq Bookings
  /\ EventId \notin Bookings
  /\ Workers \intersect Crons = {}
  /\ Requests \subseteq Endpoints
  /\ Faulty \subseteq Threads

VARIABLES
  status,             \* Booking.status, "NONE" before the row exists
  deadline,           \* Booking.cancellationDeadline against the clock
  quoted,             \* Booking.finalAmount has been set by a quote
  acceptedAt,         \* Booking.acceptedAt is set
  event,              \* Event.status, "NONE" before the row exists
  eventTime,          \* the event's date and end time against the clock
  payment,            \* Payment.status, "NONE" when the booking has no payment row
  method,             \* Payment.method
  providerReference,  \* Payment.providerReference, by where it comes from
  paidAt,             \* Payment.paidAt is set
  intent,             \* at the gateway: the payment intent of the booking
  captures,           \* at the gateway: how often the customer was charged
  delivery,           \* the booking has a Delivery row
  job                 \* what each thread is doing

bookingVars == <<status, deadline, quoted, acceptedAt>>
eventVars   == <<event, eventTime>>
paymentVars == <<payment, method, providerReference, paidAt>>
gatewayVars == <<intent, captures>>
rowVars     == <<bookingVars, eventVars, paymentVars, gatewayVars, delivery>>
vars        == <<rowVars, job>>

BookingStatus == {"PENDING", "QUOTE_SENT", "CONFIRMED", "REJECTED",
                  "IN_PROGRESS", "COMPLETED", "CANCELLED"}
EventStatus   == {"DRAFT", "IN_PROGRESS", "COMPLETED", "CANCELLED"}
PaymentStatus == {"PENDING", "PROCESSING", "PAID", "FAILED", "REFUNDED", "CANCELLED"}
PaymentMethod == {"CASH", "BANK_TRANSFER"}

TERMINAL_STATUSES == {"COMPLETED", "CANCELLED", "REJECTED"}
PENDING_STATUSES  == {"PENDING", "QUOTE_SENT"}

(* Where a thread stands: the call it makes next. *)
Steps == {"idle", "addService", "ceRead", "ceCommit", "sendQuote", "rejectBooking",
          "completeBooking", "cqConfirm", "cqDelivery", "tpRead", "tpPaid",
          "tpCommit", "rqSiblings", "rqCommit", "bulkCommit", "pbBooking",
          "pbEvent", "pbCommit", "payRow", "payIntent", "payIntentRow",
          "payProcessing", "payCharge", "payVerify", "payFailed", "markPaid",
          "mpDeadline", "refund", "ecCancel", "peUndecided", "peComplete", "peEvent"}

-----------------------------------------------------------------------------
(* The local state of a thread: its next step, the booking it is about, the *)
(* two sets of ids it holds and one value it read or was given.             *)
Task(pc, b, ids, rest, note) ==
  [pc |-> pc, b |-> b, ids |-> ids, rest |-> rest, note |-> note]
Idle         == Task("idle", EventId, {}, {}, "NONE")
On(pc, b)    == Task(pc, b, {}, {}, "NONE")

At(t, pc)        == job[t].pc = pc
Continue(t, j)   == job' = [job EXCEPT ![t] = j]
Finish(t)        == Continue(t, Idle)
Begin(t, e)      == t \in Workers /\ e \in Requests /\ At(t, "idle")
OnlyReads        == UNCHANGED rowVars

Present              == {b \in Bookings : status[b] # "NONE"}
WithStatus(S)        == {b \in Bookings : status[b] \in S}
WriteAll(f, S, v)    == [b \in Bookings |-> IF b \in S THEN v ELSE f[b]]

Init ==
  /\ status            = [b \in Bookings |-> "NONE"]
  /\ deadline          = [b \in Bookings |-> "none"]
  /\ quoted            = [b \in Bookings |-> FALSE]
  /\ acceptedAt        = [b \in Bookings |-> FALSE]
  /\ event             = "NONE"
  /\ eventTime         = "far"
  /\ payment           = [b \in Bookings |-> "NONE"]
  /\ method            = [b \in Bookings |-> "NONE"]
  /\ providerReference = [b \in Bookings |-> "none"]
  /\ paidAt            = [b \in Bookings |-> FALSE]
  /\ intent            = [b \in Bookings |-> "none"]
  /\ captures          = [b \in Bookings |-> 0]
  /\ delivery          = [b \in Bookings |-> FALSE]
  /\ job               = [t \in Threads |-> Idle]

-----------------------------------------------------------------------------
(* The event: creation, one more service, cancellation by the customer.    *)

(* New rows: PENDING bookings that expire after PENDING_TIMEOUT_HOURS. *)
InsertBookings(S) ==
  /\ status'   = WriteAll(status, S, "PENDING")
  /\ deadline' = WriteAll(deadline, S, "future")
  /\ UNCHANGED <<quoted, acceptedAt>>

CreateEvent(S) ==
  /\ event = "NONE"
  /\ S # {}
  /\ event' = "DRAFT"
  /\ InsertBookings(S)
  /\ UNCHANGED <<eventTime, paymentVars, gatewayVars, delivery, job>>

AddServiceToEvent(t) ==
  /\ Begin(t, "addServiceToEvent")
  /\ event \in {"DRAFT", "IN_PROGRESS"}
  /\ eventTime = "far"
  /\ Continue(t, On("addService", EventId))
  /\ OnlyReads

AddServiceCommit(t, b) ==
  /\ At(t, "addService")
  /\ status[b] = "NONE"
  /\ InsertBookings({b})
  /\ Finish(t)
  /\ UNCHANGED <<eventVars, paymentVars, gatewayVars, delivery>>

CancelEvent(t) ==
  /\ Begin(t, "cancelEvent")
  /\ event \in {"DRAFT", "IN_PROGRESS"}
  /\ Continue(t, On("ceRead", EventId))
  /\ OnlyReads

BlocksCancel(b) ==
  \/ status[b] \in {"IN_PROGRESS", "COMPLETED"}
  \/ status[b] = "CONFIRMED" /\ payment[b] = "PAID"

(* The bookings and their payments; a blocking one makes the handler throw. *)
CancelEventRead(t) ==
  /\ At(t, "ceRead")
  /\ IF \E b \in Bookings : BlocksCancel(b)
     THEN Finish(t)
     ELSE Continue(t, Task("ceCommit", EventId,
                           Present \ WithStatus({"CANCELLED", "REJECTED"}), {}, "NONE"))
  /\ OnlyReads

CancelEventCommit(t) ==
  /\ At(t, "ceCommit")
  /\ status' = WriteAll(status, job[t].ids, "CANCELLED")
  /\ event' = "CANCELLED"
  /\ Finish(t)
  /\ UNCHANGED <<deadline, quoted, acceptedAt, eventTime, paymentVars, gatewayVars, delivery>>

-----------------------------------------------------------------------------
(* The provider: quote, reject, complete.                                   *)

SendQuote(t, b) ==
  /\ Begin(t, "sendQuote")
  /\ status[b] = "PENDING"
  /\ Continue(t, On("sendQuote", b))
  /\ OnlyReads

SendQuoteCommit(t) ==
  /\ At(t, "sendQuote")
  /\ status'   = [status EXCEPT ![job[t].b] = "QUOTE_SENT"]
  /\ deadline' = [deadline EXCEPT ![job[t].b] = "future"]
  /\ quoted'   = [quoted EXCEPT ![job[t].b] = TRUE]
  /\ Finish(t)
  /\ UNCHANGED <<acceptedAt, eventVars, paymentVars, gatewayVars, delivery>>

RejectBooking(t, b) ==
  /\ Begin(t, "rejectBooking")
  /\ status[b] = "PENDING"
  /\ Continue(t, On("rejectBooking", b))
  /\ OnlyReads

CompleteBooking(t, b) ==
  /\ Begin(t, "completeBooking")
  /\ status[b] = "IN_PROGRESS"
  /\ Continue(t, On("completeBooking", b))
  /\ OnlyReads

(* Both end with one write of the status of the booking they read. *)
ProviderWrite(t, pc, s) ==
  /\ At(t, pc)
  /\ status' = [status EXCEPT ![job[t].b] = s]
  /\ Finish(t)
  /\ UNCHANGED <<deadline, quoted, acceptedAt, eventVars, paymentVars, gatewayVars, delivery>>

RejectBookingWrite(t) == ProviderWrite(t, "rejectBooking", "REJECTED")

(* Mutant: the booking gets the status of a finished delivery. *)
DeliveredBookingWrite(t) == ProviderWrite(t, "completeBooking", "DELIVERED")

CompleteBookingWrite(t) == ProviderWrite(t, "completeBooking", "COMPLETED")

-----------------------------------------------------------------------------
(* The customer decides on one quote.                                       *)

ConfirmQuote(t, b) ==
  /\ Begin(t, "confirmQuote")
  /\ status[b] = "QUOTE_SENT"
  /\ Continue(t, On("cqConfirm", b))
  /\ OnlyReads

ConfirmQuoteWrite(t) ==
  /\ At(t, "cqConfirm")
  /\ status'   = [status EXCEPT ![job[t].b] = "CONFIRMED"]
  /\ deadline' = [deadline EXCEPT ![job[t].b] = "future"]
  /\ Continue(t, On("cqDelivery", job[t].b))
  /\ UNCHANGED <<quoted, acceptedAt, eventVars, paymentVars, gatewayVars, delivery>>

(* The unique key on Delivery.bookingId makes the find and the create one step. *)
CreateIfRequired(t) ==
  /\ At(t, "cqDelivery")
  /\ delivery' = WriteAll(delivery, {job[t].b} \intersect Deliverable, TRUE)
  /\ Continue(t, On("tpRead", EventId))
  /\ UNCHANGED <<bookingVars, eventVars, paymentVars, gatewayVars>>

(* Mutant: any payment row counts as paid. *)
HasPayment(b) == payment[b] # "NONE"

IsPaid(b) == payment[b] = "PAID"

(* tryProgressEvent reads the statuses, then the payment of each CONFIRMED   *)
(* booking in a query of its own, then advances those.  It stops at the     *)
(* first booking that is not settled, and when nothing is left to advance.  *)
TryProgressEventRead(t) ==
  /\ At(t, "tpRead")
  /\ LET confirmed == WithStatus({"CONFIRMED"})
     IN IF Present \subseteq confirmed \union WithStatus(TERMINAL_STATUSES \union {"IN_PROGRESS"})
           /\ confirmed # {}
        THEN Continue(t, Task("tpPaid", EventId, confirmed, confirmed, "NONE"))
        ELSE Finish(t)
  /\ OnlyReads

TryProgressEventPaid(t, b) ==
  /\ At(t, "tpPaid")
  /\ b \in job[t].rest
  /\ IF ~IsPaid(b)
     THEN Finish(t)
     ELSE LET rest == job[t].rest \ {b}
          IN Continue(t, Task(IF rest = {} THEN "tpCommit" ELSE "tpPaid",
                              EventId, job[t].ids, rest, "NONE"))
  /\ OnlyReads

TryProgressEventCommit(t) ==
  /\ At(t, "tpCommit")
  /\ status'     = WriteAll(status, job[t].ids, "IN_PROGRESS")
  /\ acceptedAt' = WriteAll(acceptedAt, job[t].ids, TRUE)
  /\ event'      = "IN_PROGRESS"
  /\ Finish(t)
  /\ UNCHANGED <<deadline, quoted, eventTime, paymentVars, gatewayVars, delivery>>

RejectQuote(t, b) ==
  /\ Begin(t, "rejectQuote")
  /\ status[b] = "QUOTE_SENT"
  /\ Continue(t, On("rqSiblings", b))
  /\ OnlyReads

(* The event status the other bookings of the event call for. *)
NewEventStatus(siblings) ==
  IF \A s \in siblings : status[s] \in TERMINAL_STATUSES THEN "CANCELLED"
  ELSE IF \E s \in siblings : status[s] \in PENDING_STATUSES THEN "DRAFT"
  ELSE "NONE"

RejectQuoteSiblings(t) ==
  /\ At(t, "rqSiblings")
  /\ Continue(t, Task("rqCommit", job[t].b, {}, {}, NewEventStatus(Present \ {job[t].b})))
  /\ OnlyReads

RejectQuoteCommit(t) ==
  /\ At(t, "rqCommit")
  /\ status' = [status EXCEPT ![job[t].b] = "CANCELLED"]
  /\ event'  = IF job[t].note = "NONE" THEN event ELSE job[t].note
  /\ Finish(t)
  /\ UNCHANGED <<deadline, quoted, acceptedAt, eventTime, paymentVars, gatewayVars, delivery>>

-----------------------------------------------------------------------------
(* The customer decides on several quotes and settles how they are paid.    *)

BulkQuoteDecision(t, accepted, rejected, m) ==
  /\ Begin(t, "bulkQuoteDecision")
  /\ accepted \union rejected # {}
  /\ accepted \intersect rejected = {}
  /\ \A b \in accepted \union rejected : status[b] = "QUOTE_SENT"
  /\ \A b \in accepted : payment[b] = "NONE"
  /\ accepted = {} => m = "CASH"     \* without an accepted booking m is not read
  /\ Continue(t, Task("bulkCommit", EventId, accepted, rejected, m))
  /\ OnlyReads

(* progressBookingAndEvent is called for the ids in S, one after the other. *)
ProgressNext(t, S) ==
  IF S = {} THEN Finish(t)
  ELSE Continue(t, Task("pbBooking", EventId, {}, S, "NONE"))

(* A payment row that appeared since the read breaks the unique key on      *)
(* Payment.bookingId and the whole transaction is rolled back.              *)
BulkConflict(t) ==
  /\ At(t, "bulkCommit")
  /\ \E b \in job[t].ids : payment[b] # "NONE"
  /\ Finish(t)
  /\ OnlyReads

(* Mutant: the accepted bookings start whatever the payment method is. *)
BulkStartsAll(accepted, m) == accepted

(* The accepted bookings whose (mock) transfer clears at once; they start.  *)
BulkCleared(accepted, m) == IF m = "BANK_TRANSFER" THEN accepted ELSE {}

(* Mutant: cash stops the clock like a bank transfer. *)
BulkNoDeadline(m) == "none"

BulkDeadline(m) == IF m = "BANK_TRANSFER" THEN "none" ELSE "future"

BulkCommit(t) ==
  LET accepted == job[t].ids
      m        == job[t].note
      bankIds  == IF m = "BANK_TRANSFER" THEN accepted ELSE {}
  IN
  /\ At(t, "bulkCommit")
  /\ \A b \in accepted : payment[b] = "NONE"
  /\ status' = WriteAll(WriteAll(status, accepted, "CONFIRMED"), job[t].rest, "CANCELLED")
  /\ deadline' = WriteAll(deadline, accepted, BulkDeadline(m))
  /\ payment' = WriteAll(payment, accepted, IF m = "CASH" THEN "PROCESSING" ELSE "PAID")
  /\ method' = WriteAll(method, accepted, m)
  /\ providerReference' = WriteAll(providerReference, bankIds, "mock")
  /\ paidAt' = WriteAll(paidAt, bankIds, TRUE)
  /\ delivery' = WriteAll(delivery, accepted \intersect Deliverable, TRUE)
  /\ event' = IF \A b \in Present : status'[b] \in {"CANCELLED", "REJECTED"}
              THEN "CANCELLED" ELSE event
  /\ ProgressNext(t, BulkCleared(accepted, m))
  /\ UNCHANGED <<quoted, acceptedAt, eventTime, gatewayVars>>

(* progressBookingAndEvent(x, event) returns early unless x is the id of a  *)
(* CONFIRMED booking.                                                       *)
ProgressBookingRead(t, x) ==
  /\ At(t, "pbBooking")
  /\ x \in job[t].rest
  /\ LET rest == job[t].rest \ {x}
     IN IF x \in WithStatus({"CONFIRMED"})
        THEN Continue(t, Task("pbEvent", x, {}, rest, "NONE"))
        ELSE ProgressNext(t, rest)
  /\ OnlyReads

ProgressEventRead(t) ==
  /\ At(t, "pbEvent")
  /\ Continue(t, Task("pbCommit", job[t].b, {}, job[t].rest, event))
  /\ OnlyReads

ProgressCommit(t) ==
  /\ At(t, "pbCommit")
  /\ status'     = [status EXCEPT ![job[t].b] = "IN_PROGRESS"]
  /\ acceptedAt' = [acceptedAt EXCEPT ![job[t].b] = TRUE]
  /\ event'      = IF job[t].note = "DRAFT" THEN "IN_PROGRESS" ELSE event
  /\ ProgressNext(t, job[t].rest)
  /\ UNCHANGED <<deadline, quoted, eventTime, paymentVars, gatewayVars, delivery>>

-----------------------------------------------------------------------------
(* Payments of one booking each.                                            *)

CreatePayment(t, b, m) ==
  /\ Begin(t, "createPayment")
  /\ status[b] = "CONFIRMED"
  /\ Continue(t, Task("payRow", b, {}, {}, m))
  /\ OnlyReads

(* Mutant: a failed payment does not count, so it can be tried again. *)
HasLivePayment(b) == payment[b] \notin {"NONE", "FAILED"}

HasPaymentRow(b) == payment[b] # "NONE"

(* A row that is there is returned as it is; the unique key makes the find  *)
(* and the create one step.                                                 *)
CreatePaymentRow(t) ==
  LET b == job[t].b IN
  /\ At(t, "payRow")
  /\ IF HasPaymentRow(b)
     THEN Finish(t) /\ UNCHANGED <<payment, method>>
     ELSE /\ payment' = [payment EXCEPT ![b] = "PENDING"]
          /\ method' = [method EXCEPT ![b] = job[t].note]
          /\ IF job[t].note = "CASH" THEN Finish(t) ELSE Continue(t, On("payIntent", b))
  /\ UNCHANGED <<bookingVars, eventVars, providerReference, paidAt, gatewayVars, delivery>>

(* Stripe opens an intent; the mock gateway, or Stripe on an error, returns *)
(* none and the code falls back to a synchronous charge.                    *)
GatewayCreateIntent(t) ==
  /\ At(t, "payIntent")
  /\ \/ /\ intent' = [intent EXCEPT ![job[t].b] = "open"]
        /\ Continue(t, On("payIntentRow", job[t].b))
     \/ /\ Continue(t, On("payProcessing", job[t].b))
        /\ UNCHANGED intent
  /\ UNCHANGED <<bookingVars, eventVars, paymentVars, captures, delivery>>

IntentRowWrite(t) ==
  /\ At(t, "payIntentRow")
  /\ payment' = [payment EXCEPT ![job[t].b] = "PROCESSING"]
  /\ providerReference' = [providerReference EXCEPT ![job[t].b] = "intent"]
  /\ Finish(t)
  /\ UNCHANGED <<bookingVars, eventVars, method, paidAt, gatewayVars, delivery>>

PaymentWrite(t, pc, s) ==
  /\ At(t, pc)
  /\ payment' = [payment EXCEPT ![job[t].b] = s]
  /\ UNCHANGED <<bookingVars, eventVars, method, providerReference, paidAt, gatewayVars, delivery>>

ProcessElectronicPayment(t) ==
  /\ PaymentWrite(t, "payProcessing", "PROCESSING")
  /\ Continue(t, On("payCharge", job[t].b))

Charged(b) == captures' = [captures EXCEPT ![b] = @ + 1]

(* The gateway charges and says so, refuses, or charges while the answer is *)
(* lost: charge() catches the error and reports a failure.                  *)
GatewayCharge(t) ==
  /\ At(t, "payCharge")
  /\ \/ Charged(job[t].b) /\ Continue(t, Task("markPaid", job[t].b, {}, {}, "charge"))
     \/ Charged(job[t].b) /\ Continue(t, On("payFailed", job[t].b))
     \/ UNCHANGED captures /\ Continue(t, On("payFailed", job[t].b))
  /\ UNCHANGED <<bookingVars, eventVars, paymentVars, intent, delivery>>

(* At the gateway: the customer completes the Payment Sheet of the intent.  *)
CustomerPaysIntent(b) ==
  /\ intent[b] = "open"
  /\ providerReference[b] = "intent"
  /\ intent' = [intent EXCEPT ![b] = "succeeded"]
  /\ Charged(b)
  /\ UNCHANGED <<bookingVars, eventVars, paymentVars, delivery, job>>

ConfirmPayment(t, b) ==
  /\ Begin(t, "confirmPayment")
  /\ payment[b] = "PROCESSING"
  /\ providerReference[b] # "none"
  /\ Continue(t, On("payVerify", b))
  /\ OnlyReads

(* Mutant: the client's word is enough once there is an intent. *)
IntentExists(b) == intent[b] # "none"

(* verifyIntent: success only if the gateway says the intent succeeded; any *)
(* other answer, or none, counts as a failure.                              *)
IntentSucceeded(b) == intent[b] = "succeeded"

GatewayVerifyIntent(t) ==
  /\ At(t, "payVerify")
  /\ \/ /\ IntentSucceeded(job[t].b)
        /\ Continue(t, Task("markPaid", job[t].b, {}, {}, "intent"))
     \/ Continue(t, On("payFailed", job[t].b))
  /\ OnlyReads

PaymentFailedWrite(t) ==
  /\ PaymentWrite(t, "payFailed", "FAILED")
  /\ Finish(t)

MarkCashPaid(t, b) ==
  /\ Begin(t, "markCashPaid")
  /\ method[b] = "CASH"
  /\ payment[b] \in {"PENDING", "PROCESSING"}
  /\ Continue(t, Task("markPaid", b, {}, {}, "none"))
  /\ OnlyReads

(* Without a new reference (cash) the column keeps its value. *)
MarkPaidWrite(t) ==
  LET b == job[t].b IN
  /\ At(t, "markPaid")
  /\ payment' = [payment EXCEPT ![b] = "PAID"]
  /\ paidAt' = [paidAt EXCEPT ![b] = TRUE]
  /\ providerReference' = [providerReference EXCEPT
                             ![b] = IF job[t].note = "none" THEN @ ELSE job[t].note]
  /\ Continue(t, On("mpDeadline", b))
  /\ UNCHANGED <<bookingVars, eventVars, method, gatewayVars, delivery>>

(* The booking id that markPaid hands to progressBookingAndEvent. *)
MarkPaidProgresses(b) == EventId

(* The booking stops expiring; an error of this write is swallowed. *)
MarkPaidDeadline(t) ==
  /\ At(t, "mpDeadline")
  /\ deadline' \in {deadline, [deadline EXCEPT ![job[t].b] = "none"]}
  /\ ProgressNext(t, {MarkPaidProgresses(job[t].b)})
  /\ UNCHANGED <<status, quoted, acceptedAt, eventVars, paymentVars, gatewayVars, delivery>>

RefundPayment(t, b) ==
  /\ Begin(t, "refundPayment")
  /\ payment[b] = "PAID"
  /\ Continue(t, On("refund", b))
  /\ OnlyReads

RefundPaymentWrite(t) ==
  /\ PaymentWrite(t, "refund", "REFUNDED")
  /\ Finish(t)

-----------------------------------------------------------------------------
(* The cron jobs.                                                           *)

(* Mutant: confirmed bookings do not expire. *)
ExpirableUndecided == WithStatus(PENDING_STATUSES)

Expirable == WithStatus({"PENDING", "QUOTE_SENT", "CONFIRMED"})

(* What a pass of handleExpiredBookings finds, less what it will skip. *)
Expired ==
  {b \in Expirable :
     deadline[b] = "passed" /\ ~(status[b] = "CONFIRMED" /\ payment[b] = "PAID")}

HandleExpiredBookings(t) ==
  /\ t = "handleExpiredBookings"
  /\ At(t, "idle")
  /\ Expired # {}
  /\ Continue(t, Task("ecCancel", EventId, {}, Expired, "NONE"))
  /\ OnlyReads

ExpireBooking(t, b) ==
  /\ At(t, "ecCancel")
  /\ b \in job[t].rest
  /\ status' = [status EXCEPT ![b] = "CANCELLED"]
  /\ LET rest == job[t].rest \ {b}
     IN IF rest = {} THEN Finish(t)
        ELSE Continue(t, Task("ecCancel", EventId, {}, rest, "NONE"))
  /\ UNCHANGED <<deadline, quoted, acceptedAt, eventVars, paymentVars, gatewayVars, delivery>>

(* Mutant: the pass also takes events that never started. *)
CompletePastDrafts(t) ==
  /\ t = "completePastEvents"
  /\ At(t, "idle")
  /\ event \in {"DRAFT", "IN_PROGRESS"}
  /\ eventTime = "past"
  /\ Continue(t, On("peUndecided", EventId))
  /\ OnlyReads

CompletePastEvents(t) ==
  /\ t = "completePastEvents"
  /\ At(t, "idle")
  /\ event = "IN_PROGRESS"
  /\ eventTime = "past"
  /\ Continue(t, On("peUndecided", EventId))
  /\ OnlyReads

PastWrite(t, pc, from, to, next) ==
  /\ At(t, pc)
  /\ status' = WriteAll(status, WithStatus(from), to)
  /\ Continue(t, On(next, EventId))
  /\ UNCHANGED <<deadline, quoted, acceptedAt, eventVars, paymentVars, gatewayVars, delivery>>

PastCancelUndecided(t) == PastWrite(t, "peUndecided", PENDING_STATUSES, "CANCELLED", "peComplete")
PastCompleteRunning(t) == PastWrite(t, "peComplete", {"IN_PROGRESS"}, "COMPLETED", "peEvent")

(* Mutant: the pass settles the bookings and leaves the event. *)
PastKeepsEvent(t) == At(t, "peEvent") /\ Finish(t) /\ OnlyReads

PastCompleteEvent(t) ==
  /\ At(t, "peEvent")
  /\ event' = "COMPLETED"
  /\ Finish(t)
  /\ UNCHANGED <<bookingVars, eventTime, paymentVars, gatewayVars, delivery>>

-----------------------------------------------------------------------------
(* The environment: the clock, and failures.                                *)

DeadlinePasses(b) ==
  /\ deadline[b] = "future"
  /\ deadline' = [deadline EXCEPT ![b] = "passed"]
  /\ UNCHANGED <<status, quoted, acceptedAt, eventVars, paymentVars, gatewayVars, delivery, job>>

EventTimePasses ==
  /\ event # "NONE"
  /\ \/ eventTime = "far" /\ eventTime' = "near"    \* 4 days or less are left
     \/ eventTime = "near" /\ eventTime' = "past"   \* the event is over
  /\ UNCHANGED <<bookingVars, event, paymentVars, gatewayVars, delivery, job>>

(* A database error, or a crash of the process, ends a handler between two  *)
(* calls; what it has committed stays.                                      *)
Fail(t) ==
  /\ t \in Faulty
  /\ ~At(t, "idle")
  /\ Finish(t)
  /\ OnlyReads

(* A request arrives, or a cron job has something to do. *)
Call(t) ==
  \/ AddServiceToEvent(t)
  \/ CancelEvent(t)
  \/ \E b \in Bookings :
       \/ SendQuote(t, b) \/ RejectBooking(t, b) \/ CompleteBooking(t, b)
       \/ ConfirmQuote(t, b) \/ RejectQuote(t, b)
       \/ \E m \in PaymentMethod : CreatePayment(t, b, m)
       \/ ConfirmPayment(t, b) \/ MarkCashPaid(t, b) \/ RefundPayment(t, b)
  \/ \E accepted, rejected \in SUBSET Bookings, m \in PaymentMethod :
       BulkQuoteDecision(t, accepted, rejected, m)

CronPass(t) == HandleExpiredBookings(t) \/ CompletePastEvents(t)

(* A thread goes on to its next call. *)
Advance(t) ==
  \/ \E b \in Bookings : AddServiceCommit(t, b)
  \/ CancelEventRead(t) \/ CancelEventCommit(t)
  \/ SendQuoteCommit(t) \/ RejectBookingWrite(t) \/ CompleteBookingWrite(t)
  \/ ConfirmQuoteWrite(t) \/ CreateIfRequired(t)
  \/ TryProgressEventRead(t) \/ TryProgressEventCommit(t)
  \/ \E b \in Bookings : TryProgressEventPaid(t, b)
  \/ RejectQuoteSiblings(t) \/ RejectQuoteCommit(t)
  \/ BulkConflict(t) \/ BulkCommit(t)
  \/ \E x \in Bookings \union {EventId} : ProgressBookingRead(t, x)
  \/ ProgressEventRead(t) \/ ProgressCommit(t)
  \/ CreatePaymentRow(t) \/ GatewayCreateIntent(t) \/ IntentRowWrite(t)
  \/ ProcessElectronicPayment(t) \/ GatewayCharge(t) \/ GatewayVerifyIntent(t)
  \/ PaymentFailedWrite(t) \/ MarkPaidWrite(t) \/ MarkPaidDeadline(t)
  \/ RefundPaymentWrite(t)
  \/ \E b \in Bookings : ExpireBooking(t, b)
  \/ PastCancelUndecided(t) \/ PastCompleteRunning(t) \/ PastCompleteEvent(t)

Environment ==
  \/ \E S \in SUBSET Bookings : CreateEvent(S)
  \/ \E b \in Bookings : CustomerPaysIntent(b) \/ DeadlinePasses(b)
  \/ EventTimePasses

Next ==
  \/ Environment
  \/ \E t \in Threads : Call(t) \/ CronPass(t) \/ Advance(t) \/ Fail(t)

Spec == Init /\ [][Next]_vars

(* A promise that was started is run to its end by the event loop unless    *)
(* the handler fails; the scheduler calls the cron jobs again and again;    *)
(* time passes.  Nobody has to send a request or to pay.                    *)
Fairness ==
  /\ \A t \in Threads : WF_vars(Advance(t))
  /\ \A t \in Crons : WF_vars(CronPass(t))
  /\ \A b \in Bookings : WF_vars(DeadlinePasses(b))
  /\ WF_vars(EventTimePasses)

FairSpec == Spec /\ Fairness

-----------------------------------------------------------------------------
Tasks ==
  [pc : Steps, b : Bookings \union {EventId}, ids : SUBSET Bookings,
   rest : SUBSET (Bookings \union {EventId}),
   note : {"NONE", "none", "charge", "intent"} \union EventStatus \union PaymentMethod]

(* The columns of the rows hold members of their enums, and the gateway its *)
(* values; a thread holds a task of the kind above.                         *)
RowsTypeOK ==
  /\ status \in [Bookings -> BookingStatus \union {"NONE"}]
  /\ deadline \in [Bookings -> {"none", "future", "passed"}]
  /\ quoted \in [Bookings -> BOOLEAN]
  /\ acceptedAt \in [Bookings -> BOOLEAN]
  /\ event \in EventStatus \union {"NONE"}
  /\ eventTime \in {"far", "near", "past"}
  /\ payment \in [Bookings -> PaymentStatus \union {"NONE"}]
  /\ method \in [Bookings -> PaymentMethod \union {"NONE"}]
  /\ providerReference \in [Bookings -> {"none", "intent", "charge", "mock"}]
  /\ paidAt \in [Bookings -> BOOLEAN]
  /\ intent \in [Bookings -> {"none", "open", "succeeded"}]
  /\ captures \in [Bookings -> Nat]
  /\ delivery \in [Bookings -> BOOLEAN]

TypeOK == RowsTypeOK /\ job \in [Threads -> Tasks]

Started == {"IN_PROGRESS", "COMPLETED"}

(* Payment is a real gate: a booking whose service runs or has been         *)
(* delivered has been paid, whatever the handlers interleaved to get there. *)
PaidGate == \A b \in WithStatus(Started) : paidAt[b]

(* The event runs or is over only if one of its bookings has been paid.     *)
EventStartedIsPaid == event \in Started => \E b \in Bookings : paidAt[b]

(* A booking loses its deadline, and with it the attention of the cleanup,  *)
(* only by being paid: no unpaid booking can hold its slot for ever.        *)
NoDeadlineMeansPaid == \A b \in Present : deadline[b] = "none" => paidAt[b]

(* A bank transfer is marked as cleared only when the gateway took the      *)
(* money, never on the word of the client; the bulk decision's transfer is  *)
(* a mock and is told by its reference.                                     *)
VerifiedBeforePaid ==
  \A b \in Bookings :
    paidAt[b] /\ method[b] = "BANK_TRANSFER" /\ providerReference[b] # "mock"
      => captures[b] > 0

(* However often createPayment and confirmPayment are called, and whatever  *)
(* fails in between, the gateway takes the money for a booking once.        *)
ChargedAtMostOnce == \A b \in Bookings : captures[b] <= 1

(* What the customer and the provider can rely on (module PaymentGate): the *)
(* bookings paid for, those whose service was started, and whether the      *)
(* event is on, move together as promised.                                  *)
Gate == INSTANCE PaymentGate WITH
          cleared <- {b \in Bookings : paidAt[b]},
          started <- {b \in Bookings : acceptedAt[b]},
          running <- event \in Started
ImplementsPaymentGate == Gate!Spec

(* Two hazards of time: a booking nobody pays does not stay open for ever   *)
(* (handleExpiredBookings takes it, whatever the handlers that were at work *)
(* on it did or failed to do), and an event that runs comes to its end.     *)
Open(b)       == status[b] \in {"PENDING", "QUOTE_SENT", "CONFIRMED"}
UnpaidExpires == \A b \in Bookings : Open(b) /\ ~paidAt[b] ~> ~Open(b) \/ paidAt[b]
EventEnds     == event = "IN_PROGRESS" ~> event # "IN_PROGRESS"

-----------------------------------------------------------------------------
(* What the comments of the code say and the code does not do.              *)

(* progressBookingAndEvent: the booking "flips from CONFIRMED to IN_PROGRESS *)
(* immediately" once its payment clears.  markPaid hands it the id of the   *)
(* event in the place of the booking's.                                     *)
PaidBookingStarts ==
  \A b \in Bookings :
    status[b] = "CONFIRMED" /\ IsPaid(b) ~> status[b] # "CONFIRMED" \/ ~IsPaid(b)

(* handleExpiredBookings: a confirmed booking whose payment has cleared is  *)
(* skipped "defensively in case of a race".  The test is made on the rows   *)
(* read at the start of the pass.                                           *)
PaidIsNotCancelled ==
  [][\A b \in Bookings :
       status[b] = "CONFIRMED" /\ IsPaid(b) => status'[b] # "CANCELLED"]_vars

(* rejectQuote: while a sibling is undecided the "event stays DRAFT".  The  *)
(* event that a paid sibling has already started is taken back to DRAFT.    *)
RunningEventStaysOn == [][event = "IN_PROGRESS" => event' # "DRAFT"]_vars
=============================================================================
