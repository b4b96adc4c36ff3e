------------------------- MODULE EventBookingsProofs -------------------------
(***************************************************************************)
(* Proofs about EventBookings, for any set of bookings, any number of      *)
(* concurrent requests and any choice of what may fail.                    *)
(***************************************************************************)
EXTENDS EventBookings, TLAPS

(* The steps of a handler that is about one booking. *)
OneBookingSteps ==
  {"sendQuote", "rejectBooking", "completeBooking", "cqConfirm", "cqDelivery", "rqSiblings",
   "rqCommit", "pbEvent", "pbCommit", "payRow", "payIntent", "payIntentRow", "payProcessing",
   "payCharge", "payVerify", "payFailed", "markPaid", "mpDeadline", "refund"}

(* What a thread was given or has read is of the kind its next call needs. *)
NoteOK(j) ==
  /\ j.pc \in {"payRow", "bulkCommit"} => j.note \in PaymentMethod
  /\ j.pc \in {"tpPaid", "tpCommit", "bulkCommit", "ecCancel"} => j.rest \subseteq Bookings
  /\ j.pc = "rqCommit" => j.note \in {"CANCELLED", "DRAFT", "NONE"}
  /\ j.pc = "markPaid" => j.note \in {"none", "charge", "intent"}
  /\ j.pc \in OneBookingSteps => j.b \in Bookings

TaskOK(j) ==
  /\ j.b \in Bookings \union {EventId}
  /\ j.ids \subseteq Bookings
  /\ j.rest \subseteq Bookings \union {EventId}
  /\ NoteOK(j)

(* The typing invariant.  It says nothing of the steps and notes that are    *)
(* not of EventBookings, so that PackageBookings, which adds some, has it    *)
(* too; JobsKnown says that here there are no others.                        *)
TypeInv ==
  /\ RowsTypeOK
  /\ DOMAIN job = Threads
  /\ \A t \in Threads : TaskOK(job[t])

JobsKnown == job \in [Threads -> Tasks]

(* What every step of EventBookings keeps: the types, and the jobs it moves  *)
(* are tasks of EventBookings.                                               *)
TypedStep ==
  /\ TypeInv'
  /\ JobsKnown => JobsKnown'
  /\ \A u \in Threads : job'[u] = job[u] \/ job'[u] \in Tasks

LEMMA InitTypeInv == Init => TypeInv /\ JobsKnown
<1> SUFFICES ASSUME Init PROVE TypeInv /\ JobsKnown
  OBVIOUS
<1>1. RowsTypeOK
  BY DEF Init, RowsTypeOK, EventStatus
<1>2. Idle \in Tasks /\ TaskOK(Idle)
  BY DEF Idle, Task, Tasks, Steps, NoteOK, TaskOK, OneBookingSteps
<1>3. /\ job \in [Threads -> Tasks] /\ DOMAIN job = Threads
      /\ \A t \in Threads : TaskOK(job[t])
  BY <1>2 DEF Init
<1> QED
  BY <1>1, <1>3 DEF TypeInv, JobsKnown

(* A well typed task of one thread keeps the jobs well typed. *)
LEMMA ContinueTyped ==
  ASSUME TypeInv, NEW t \in Threads, NEW j \in Tasks, NoteOK(j), Continue(t, j), RowsTypeOK'
  PROVE  TypedStep
<1>1. job' = [job EXCEPT ![t] = j] /\ DOMAIN job = Threads
  BY DEF Continue, TypeInv
<1>2. DOMAIN job' = Threads /\ \A u \in Threads : job'[u] = IF u = t THEN j ELSE job[u]
  BY <1>1
<1>3. TaskOK(j)
  BY DEF TaskOK, Tasks
<1>4. \A u \in Threads : TaskOK(job'[u])
  BY <1>2, <1>3 DEF TypeInv
<1>5. TypeInv'
  BY <1>2, <1>4 DEF TypeInv, TaskOK, NoteOK
<1>6. JobsKnown => JobsKnown'
  BY <1>1 DEF JobsKnown
<1> QED
  BY <1>2, <1>5, <1>6 DEF TypedStep

LEMMA FinishTyped ==
  ASSUME TypeInv, NEW t \in Threads, Finish(t), RowsTypeOK'
  PROVE  TypedStep
<1>1. Idle \in Tasks /\ NoteOK(Idle)
  BY DEF Idle, Task, Tasks, Steps, NoteOK, OneBookingSteps
<1> QED
  BY <1>1, ContinueTyped DEF Finish

LEMMA OnTyped ==
  ASSUME TypeInv, NEW t \in Threads, NEW pc \in Steps, NEW b \in Bookings \union {EventId},
         \/ pc \in {"addService", "ceRead", "tpRead", "peUndecided", "peComplete", "peEvent"}
         \/ b \in Bookings /\ pc \notin {"payRow", "rqCommit", "bulkCommit", "markPaid"},
         Continue(t, On(pc, b)), RowsTypeOK'
  PROVE  TypedStep
<1>1. On(pc, b) \in Tasks /\ NoteOK(On(pc, b))
  BY DEF On, Task, Tasks, Steps, NoteOK, OneBookingSteps
<1> QED
  BY <1>1, ContinueTyped

LEMMA TaskTyped ==
  ASSUME TypeInv, NEW t \in Threads, NEW pc \in Steps, NEW b \in Bookings \union {EventId},
         NEW ids \in SUBSET Bookings, NEW rest \in SUBSET (Bookings \union {EventId}),
         NEW note \in {"NONE", "none", "charge", "intent"} \union EventStatus
                        \union PaymentMethod,
         NoteOK(Task(pc, b, ids, rest, note)),
         Continue(t, Task(pc, b, ids, rest, note)), RowsTypeOK'
  PROVE  TypedStep
<1>1. Task(pc, b, ids, rest, note) \in Tasks
  BY DEF Task, Tasks
<1> QED
  BY <1>1, ContinueTyped

LEMMA ReadsTyped ==
  ASSUME TypeInv, OnlyReads PROVE RowsTypeOK'
BY DEF TypeInv, RowsTypeOK, OnlyReads, rowVars, bookingVars, eventVars,
       paymentVars, gatewayVars

LEMMA EnvironmentTyped ==
  ASSUME TypeInv, Environment PROVE TypedStep
<1>1. RowsTypeOK'
  <2>1. CASE \E S \in SUBSET Bookings : CreateEvent(S)
    BY <2>1 DEF CreateEvent, InsertBookings, WriteAll, RowsTypeOK, TypeInv,
                BookingStatus, EventStatus, eventVars, paymentVars, gatewayVars
  <2>2. CASE \E b \in Bookings : CustomerPaysIntent(b)
    BY <2>2 DEF CustomerPaysIntent, Charged, RowsTypeOK, TypeInv, bookingVars,
                eventVars, paymentVars
  <2>3. CASE \E b \in Bookings : DeadlinePasses(b)
    BY <2>3 DEF DeadlinePasses, RowsTypeOK, TypeInv, eventVars, paymentVars,
                gatewayVars
  <2>4. CASE EventTimePasses
    BY <2>4 DEF EventTimePasses, RowsTypeOK, TypeInv, bookingVars, paymentVars,
                gatewayVars
  <2> QED
    BY <2>1, <2>2, <2>3, <2>4 DEF Environment
<1>2. job' = job
  BY DEF Environment, CreateEvent, CustomerPaysIntent, DeadlinePasses, EventTimePasses
<1> QED
  BY <1>1, <1>2 DEF TypedStep, TypeInv, TaskOK, NoteOK, JobsKnown

LEMMA CallTyped ==
  ASSUME TypeInv, NEW t \in Threads, Call(t) PROVE TypedStep
<1>1. CASE AddServiceToEvent(t) \/ CancelEvent(t)
  <2>1. RowsTypeOK'
    BY <1>1, ReadsTyped DEF AddServiceToEvent, CancelEvent
  <2> QED
    BY <1>1, <2>1, OnTyped DEF AddServiceToEvent, CancelEvent, Steps
<1>2. ASSUME NEW b \in Bookings,
             \/ SendQuote(t, b) \/ RejectBooking(t, b) \/ CompleteBooking(t, b)
             \/ ConfirmQuote(t, b) \/ RejectQuote(t, b) \/ ConfirmPayment(t, b)
             \/ RefundPayment(t, b)
      PROVE  TypedStep
  <2>1. RowsTypeOK'
    BY <1>2, ReadsTyped DEF SendQuote, RejectBooking, CompleteBooking, ConfirmQuote,
       RejectQuote, ConfirmPayment, RefundPayment
  <2> QED
    BY <1>2, <2>1, OnTyped DEF SendQuote, RejectBooking, CompleteBooking, ConfirmQuote,
       RejectQuote, ConfirmPayment, RefundPayment, Steps
<1>3. ASSUME NEW b \in Bookings, NEW m \in PaymentMethod, CreatePayment(t, b, m)
      PROVE  TypedStep
  <2>1. RowsTypeOK'
    BY <1>3, ReadsTyped DEF CreatePayment
  <2>2. NoteOK(Task("payRow", b, {}, {}, m))
    BY DEF NoteOK, Task, OneBookingSteps
  <2> QED
    BY <1>3, <2>1, <2>2, TaskTyped DEF CreatePayment, Steps
<1>4. ASSUME NEW b \in Bookings, MarkCashPaid(t, b)
      PROVE  TypedStep
  <2>1. RowsTypeOK'
    BY <1>4, ReadsTyped DEF MarkCashPaid
  <2>2. NoteOK(Task("markPaid", b, {}, {}, "none"))
    BY DEF NoteOK, Task, OneBookingSteps
  <2> QED
    BY <1>4, <2>1, <2>2, TaskTyped DEF MarkCashPaid, Steps
<1>5. ASSUME NEW accepted \in SUBSET Bookings, NEW rejected \in SUBSET Bookings,
             NEW m \in PaymentMethod, BulkQuoteDecision(t, accepted, rejected, m)
      PROVE  TypedStep
  <2>1. RowsTypeOK'
    BY <1>5, ReadsTyped DEF BulkQuoteDecision
  <2>2. NoteOK(Task("bulkCommit", EventId, accepted, rejected, m))
    BY DEF NoteOK, Task, OneBookingSteps
  <2> QED
    BY <1>5, <2>1, <2>2, TaskTyped DEF BulkQuoteDecision, Steps
<1> QED
  BY <1>1, <1>2, <1>3, <1>4, <1>5 DEF Call

LEMMA CronTyped ==
  ASSUME TypeInv, NEW t \in Threads, CronPass(t) PROVE TypedStep
<1>1. RowsTypeOK'
  BY ReadsTyped DEF CronPass, HandleExpiredBookings, CompletePastEvents
<1>2. CASE HandleExpiredBookings(t)
  <2>1. Expired \subseteq Bookings
    BY DEF Expired, Expirable, WithStatus
  <2>2. NoteOK(Task("ecCancel", EventId, {}, Expired, "NONE"))
    BY <2>1 DEF NoteOK, Task, OneBookingSteps
  <2> QED
    BY <1>1, <1>2, <2>1, <2>2, TaskTyped DEF HandleExpiredBookings, Steps
<1>3. CASE CompletePastEvents(t)
  BY <1>1, <1>3, OnTyped DEF CompletePastEvents, Steps
<1> QED
  BY <1>2, <1>3 DEF CronPass

(* ProgressNext either ends the request or goes on with a smaller set.      *)
LEMMA ProgressTyped ==
  ASSUME TypeInv, NEW t \in Threads, NEW S \in SUBSET (Bookings \union {EventId}),
         ProgressNext(t, S), RowsTypeOK'
  PROVE  TypedStep
<1>1. CASE S = {}
  BY <1>1, FinishTyped DEF ProgressNext
<1>2. CASE S # {}
  <2>1. NoteOK(Task("pbBooking", EventId, {}, S, "NONE"))
    BY DEF NoteOK, Task, OneBookingSteps
  <2> QED
    BY <1>2, <2>1, TaskTyped DEF ProgressNext, Steps
<1> QED
  BY <1>1, <1>2

LEMMA JobTyped ==
  ASSUME TypeInv, NEW t \in Threads
  PROVE  /\ job[t].b \in Bookings \union {EventId}
         /\ job[t].ids \subseteq Bookings
         /\ job[t].rest \subseteq Bookings \union {EventId}
         /\ NoteOK(job[t])
BY DEF TypeInv, TaskOK

LEMMA BookingStepsTyped ==
  ASSUME TypeInv, NEW t \in Threads,
         \/ \E b \in Bookings : AddServiceCommit(t, b)
         \/ CancelEventRead(t) \/ CancelEventCommit(t)
         \/ SendQuoteCommit(t) \/ RejectBookingWrite(t) \/ CompleteBookingWrite(t)
         \/ ConfirmQuoteWrite(t) \/ CreateIfRequired(t)
         \/ RejectQuoteSiblings(t) \/ RejectQuoteCommit(t)
  PROVE  TypedStep
<1> USE JobTyped
<1>1. ASSUME NEW b \in Bookings, AddServiceCommit(t, b) PROVE TypedStep
  <2>1. RowsTypeOK'
    BY <1>1 DEF AddServiceCommit, InsertBookings, WriteAll, RowsTypeOK, TypeInv,
                BookingStatus, eventVars, paymentVars, gatewayVars
  <2> QED
    BY <1>1, <2>1, FinishTyped DEF AddServiceCommit
<1>2. CASE CancelEventRead(t)
  <2>1. RowsTypeOK'
    BY <1>2, ReadsTyped DEF CancelEventRead
  <2> DEFINE ids == Present \ WithStatus({"CANCELLED", "REJECTED"})
  <2>2. ids \subseteq Bookings /\ NoteOK(Task("ceCommit", EventId, ids, {}, "NONE"))
    BY DEF Present, NoteOK, Task, OneBookingSteps
  <2> QED
    BY <1>2, <2>1, <2>2, FinishTyped, TaskTyped DEF CancelEventRead, Steps
<1>3. CASE CancelEventCommit(t)
  <2>1. RowsTypeOK'
    BY <1>3 DEF CancelEventCommit, WriteAll, RowsTypeOK, TypeInv, BookingStatus,
                EventStatus, paymentVars, gatewayVars
  <2> QED
    BY <1>3, <2>1, FinishTyped DEF CancelEventCommit
<1>4. CASE SendQuoteCommit(t)
  <2>1. RowsTypeOK'
    BY <1>4 DEF SendQuoteCommit, At, NoteOK, OneBookingSteps, RowsTypeOK, TypeInv, BookingStatus,
                eventVars, paymentVars, gatewayVars
  <2> QED
    BY <1>4, <2>1, FinishTyped DEF SendQuoteCommit
<1>5. CASE RejectBookingWrite(t) \/ CompleteBookingWrite(t)
  <2>1. RowsTypeOK'
    BY <1>5
      DEF RejectBookingWrite, CompleteBookingWrite, ProviderWrite, At, NoteOK, OneBookingSteps,
                RowsTypeOK, TypeInv, BookingStatus, eventVars, paymentVars,
                gatewayVars
  <2> QED
    BY <1>5, <2>1, FinishTyped DEF RejectBookingWrite, CompleteBookingWrite, ProviderWrite
<1>6. CASE ConfirmQuoteWrite(t)
  <2>1. RowsTypeOK'
    BY <1>6 DEF ConfirmQuoteWrite, At, NoteOK, OneBookingSteps, RowsTypeOK, TypeInv, BookingStatus,
                eventVars, paymentVars, gatewayVars
  <2>2. job[t].b \in Bookings
    BY <1>6 DEF ConfirmQuoteWrite, At, NoteOK, OneBookingSteps
  <2> QED
    BY <1>6, <2>1, <2>2, OnTyped DEF ConfirmQuoteWrite, Steps
<1>7. CASE CreateIfRequired(t)
  <2>1. RowsTypeOK'
    BY <1>7 DEF CreateIfRequired, WriteAll, RowsTypeOK, TypeInv, bookingVars,
                eventVars, paymentVars, gatewayVars
  <2> QED
    BY <1>7, <2>1, OnTyped DEF CreateIfRequired, Steps
<1>8. CASE RejectQuoteSiblings(t)
  <2>1. RowsTypeOK'
    BY <1>8, ReadsTyped DEF RejectQuoteSiblings
  <2> DEFINE b == job[t].b
             n == NewEventStatus(Present \ {b})
  <2>2. b \in Bookings
    BY <1>8 DEF RejectQuoteSiblings, At, NoteOK, OneBookingSteps
  <2>3. n \in {"CANCELLED", "DRAFT", "NONE"}
    BY DEF NewEventStatus
  <2>4. NoteOK(Task("rqCommit", b, {}, {}, n))
    BY <2>2, <2>3 DEF NoteOK, Task, OneBookingSteps
  <2>5. n \in {"NONE", "none", "charge", "intent"} \union EventStatus \union PaymentMethod
    BY <2>3 DEF EventStatus
  <2>6. Continue(t, Task("rqCommit", b, {}, {}, n))
    BY <1>8 DEF RejectQuoteSiblings
  <2> HIDE DEF b, n
  <2> QED
    BY <2>1, <2>2, <2>4, <2>5, <2>6, TaskTyped DEF Steps
<1>9. CASE RejectQuoteCommit(t)
  <2>1. RowsTypeOK'
    BY <1>9 DEF RejectQuoteCommit, At, NoteOK, OneBookingSteps, RowsTypeOK, TypeInv, BookingStatus,
                EventStatus, paymentVars, gatewayVars
  <2> QED
    BY <1>9, <2>1, FinishTyped DEF RejectQuoteCommit
<1> QED
  BY <1>1, <1>2, <1>3, <1>4, <1>5, <1>6, <1>7, <1>8, <1>9

LEMMA ProgressStepsTyped ==
  ASSUME TypeInv, NEW t \in Threads,
         \/ TryProgressEventRead(t) \/ TryProgressEventCommit(t)
         \/ \E b \in Bookings : TryProgressEventPaid(t, b)
         \/ BulkConflict(t) \/ BulkCommit(t)
         \/ \E x \in Bookings \union {EventId} : ProgressBookingRead(t, x)
         \/ ProgressEventRead(t) \/ ProgressCommit(t)
  PROVE  TypedStep
<1> USE JobTyped
<1>1. CASE TryProgressEventRead(t)
  <2>1. RowsTypeOK'
    BY <1>1, ReadsTyped DEF TryProgressEventRead
  <2> DEFINE confirmed == WithStatus({"CONFIRMED"})
  <2>2. /\ confirmed \subseteq Bookings
        /\ NoteOK(Task("tpPaid", EventId, confirmed, confirmed, "NONE"))
    BY DEF WithStatus, NoteOK, Task, OneBookingSteps
  <2> QED
    BY <1>1, <2>1, <2>2, FinishTyped, TaskTyped DEF TryProgressEventRead, Steps
<1>2. ASSUME NEW b \in Bookings, TryProgressEventPaid(t, b) PROVE TypedStep
  <2>1. RowsTypeOK'
    BY <1>2, ReadsTyped DEF TryProgressEventPaid
  <2> DEFINE rest == job[t].rest \ {b}
             ids == job[t].ids
             pc == IF rest = {} THEN "tpCommit" ELSE "tpPaid"
  <2>2. rest \subseteq Bookings /\ ids \subseteq Bookings /\ pc \in Steps
    BY <1>2 DEF TryProgressEventPaid, At, NoteOK, OneBookingSteps, Tasks, Steps
  <2>3. NoteOK(Task(pc, EventId, ids, rest, "NONE"))
    BY <2>2 DEF NoteOK, Task, OneBookingSteps
  <2>4. Finish(t) \/ Continue(t, Task(pc, EventId, ids, rest, "NONE"))
    BY <1>2 DEF TryProgressEventPaid
  <2> HIDE DEF rest, ids, pc
  <2> QED
    BY <2>1, <2>2, <2>3, <2>4, FinishTyped, TaskTyped
<1>3. CASE TryProgressEventCommit(t)
  <2>1. RowsTypeOK'
    BY <1>3 DEF TryProgressEventCommit, WriteAll, RowsTypeOK, TypeInv,
                BookingStatus, EventStatus, paymentVars, gatewayVars
  <2> QED
    BY <1>3, <2>1, FinishTyped DEF TryProgressEventCommit
<1>4. CASE BulkConflict(t)
  BY <1>4, ReadsTyped, FinishTyped DEF BulkConflict
<1>5. CASE BulkCommit(t)
  <2> DEFINE S == BulkCleared(job[t].ids, job[t].note)
  <2>1. job[t].note \in PaymentMethod /\ S \subseteq Bookings
    BY <1>5 DEF BulkCommit, BulkCleared, At, NoteOK, OneBookingSteps, Tasks
  <2>2. RowsTypeOK'
    BY <1>5, <2>1 DEF BulkCommit, BulkDeadline, WriteAll, RowsTypeOK, TypeInv,
       BookingStatus, EventStatus, PaymentStatus, PaymentMethod, gatewayVars
  <2>3. ProgressNext(t, S)
    BY <1>5 DEF BulkCommit
  <2> HIDE DEF S
  <2> QED
    BY <2>1, <2>2, <2>3, ProgressTyped
<1>6. ASSUME NEW x \in Bookings \union {EventId}, ProgressBookingRead(t, x) PROVE TypedStep
  <2>1. RowsTypeOK'
    BY <1>6, ReadsTyped DEF ProgressBookingRead
  <2> DEFINE rest == job[t].rest \ {x}
  <2>2. rest \subseteq Bookings \union {EventId}
    BY DEF Tasks
  <2>3. \/ x \in Bookings /\ Continue(t, Task("pbEvent", x, {}, rest, "NONE"))
        \/ ProgressNext(t, rest)
    BY <1>6 DEF ProgressBookingRead, WithStatus
  <2>4. x \in Bookings => NoteOK(Task("pbEvent", x, {}, rest, "NONE"))
    BY DEF NoteOK, Task, OneBookingSteps
  <2> HIDE DEF rest
  <2> QED
    BY <2>1, <2>2, <2>3, <2>4, ProgressTyped, TaskTyped DEF Steps
<1>7. CASE ProgressEventRead(t)
  <2>1. RowsTypeOK'
    BY <1>7, ReadsTyped DEF ProgressEventRead
  <2> DEFINE b == job[t].b
             rest == job[t].rest
  <2>2. b \in Bookings /\ rest \subseteq Bookings \union {EventId}
    BY <1>7 DEF ProgressEventRead, At, NoteOK, OneBookingSteps, Tasks
  <2>3. event \in {"NONE", "none", "charge", "intent"} \union EventStatus \union PaymentMethod
    BY DEF TypeInv, RowsTypeOK
  <2>4. NoteOK(Task("pbCommit", b, {}, rest, event))
    BY <2>2 DEF NoteOK, Task, OneBookingSteps
  <2>5. Continue(t, Task("pbCommit", b, {}, rest, event))
    BY <1>7 DEF ProgressEventRead
  <2> HIDE DEF b, rest
  <2> QED
    BY <2>1, <2>2, <2>3, <2>4, <2>5, TaskTyped DEF Steps
<1>8. CASE ProgressCommit(t)
  <2>1. RowsTypeOK'
    BY <1>8 DEF ProgressCommit, RowsTypeOK, TypeInv, BookingStatus, EventStatus,
                paymentVars, gatewayVars
  <2>2. job[t].rest \subseteq Bookings \union {EventId} /\ ProgressNext(t, job[t].rest)
    BY <1>8 DEF ProgressCommit, Tasks
  <2> QED
    BY <2>1, <2>2, ProgressTyped
<1> QED
  BY <1>1, <1>2, <1>3, <1>4, <1>5, <1>6, <1>7, <1>8

LEMMA PaymentStepsTyped ==
  ASSUME TypeInv, NEW t \in Threads,
         \/ CreatePaymentRow(t) \/ GatewayCreateIntent(t) \/ IntentRowWrite(t)
         \/ ProcessElectronicPayment(t) \/ GatewayCharge(t) \/ GatewayVerifyIntent(t)
         \/ PaymentFailedWrite(t) \/ MarkPaidWrite(t) \/ MarkPaidDeadline(t)
         \/ RefundPaymentWrite(t)
  PROVE  TypedStep
<1> USE JobTyped
<1>1. CASE CreatePaymentRow(t)
  <2>1. job[t].b \in Bookings /\ job[t].note \in PaymentMethod
    BY <1>1 DEF CreatePaymentRow, At, NoteOK, OneBookingSteps
  <2>2. RowsTypeOK'
    BY <1>1, <2>1 DEF CreatePaymentRow, RowsTypeOK, TypeInv, PaymentStatus,
                bookingVars, eventVars, gatewayVars
  <2> QED
    BY <1>1, <2>1, <2>2, FinishTyped, OnTyped DEF CreatePaymentRow, Steps
<1>2. CASE GatewayCreateIntent(t)
  <2>1. RowsTypeOK'
    BY <1>2 DEF GatewayCreateIntent, At, NoteOK, OneBookingSteps, RowsTypeOK, TypeInv, bookingVars,
                eventVars, paymentVars
  <2>2. job[t].b \in Bookings
    BY <1>2 DEF GatewayCreateIntent, At, NoteOK, OneBookingSteps
  <2> QED
    BY <1>2, <2>1, <2>2, OnTyped DEF GatewayCreateIntent, Steps
<1>3. CASE IntentRowWrite(t)
  <2>1. RowsTypeOK'
    BY <1>3 DEF IntentRowWrite, At, NoteOK, OneBookingSteps, RowsTypeOK, TypeInv, PaymentStatus,
                bookingVars, eventVars, gatewayVars
  <2> QED
    BY <1>3, <2>1, FinishTyped DEF IntentRowWrite
<1>4. CASE ProcessElectronicPayment(t)
  <2>1. RowsTypeOK'
    BY <1>4
      DEF ProcessElectronicPayment, PaymentWrite, At, NoteOK, OneBookingSteps, RowsTypeOK, TypeInv,
                PaymentStatus, bookingVars, eventVars, gatewayVars
  <2>2. job[t].b \in Bookings
    BY <1>4 DEF ProcessElectronicPayment, PaymentWrite, At, NoteOK, OneBookingSteps
  <2> QED
    BY <1>4, <2>1, <2>2, OnTyped DEF ProcessElectronicPayment, Steps
<1>5. CASE GatewayCharge(t)
  <2>1. job[t].b \in Bookings
    BY <1>5 DEF GatewayCharge, At, NoteOK, OneBookingSteps
  <2>2. RowsTypeOK'
    BY <1>5, <2>1 DEF GatewayCharge, Charged, RowsTypeOK, TypeInv, bookingVars,
                eventVars, paymentVars
  <2>3. NoteOK(Task("markPaid", job[t].b, {}, {}, "charge"))
    BY <2>1 DEF NoteOK, Task, OneBookingSteps
  <2> QED
    BY <1>5, <2>1, <2>2, <2>3, OnTyped, TaskTyped DEF GatewayCharge, Steps
<1>6. CASE GatewayVerifyIntent(t)
  <2>1. job[t].b \in Bookings
    BY <1>6 DEF GatewayVerifyIntent, At, NoteOK, OneBookingSteps
  <2>2. RowsTypeOK'
    BY <1>6, ReadsTyped DEF GatewayVerifyIntent
  <2>3. NoteOK(Task("markPaid", job[t].b, {}, {}, "intent"))
    BY <2>1 DEF NoteOK, Task, OneBookingSteps
  <2> QED
    BY <1>6, <2>1, <2>2, <2>3, OnTyped, TaskTyped DEF GatewayVerifyIntent, Steps
<1>7. CASE PaymentFailedWrite(t) \/ RefundPaymentWrite(t)
  <2>1. RowsTypeOK'
    BY <1>7
      DEF PaymentFailedWrite, RefundPaymentWrite, PaymentWrite, At, NoteOK, OneBookingSteps, RowsTypeOK,
                TypeInv, PaymentStatus, bookingVars, eventVars, gatewayVars
  <2> QED
    BY <1>7, <2>1, FinishTyped DEF PaymentFailedWrite, RefundPaymentWrite
<1>8. CASE MarkPaidWrite(t)
  <2>1. job[t].b \in Bookings /\ job[t].note \in {"none", "charge", "intent"}
    BY <1>8 DEF MarkPaidWrite, At, NoteOK, OneBookingSteps
  <2>2. RowsTypeOK'
    BY <1>8, <2>1 DEF MarkPaidWrite, RowsTypeOK, TypeInv, PaymentStatus, bookingVars,
                eventVars, gatewayVars
  <2> QED
    BY <1>8, <2>1, <2>2, OnTyped DEF MarkPaidWrite, Steps
<1>9. CASE MarkPaidDeadline(t)
  <2>1. RowsTypeOK'
    BY <1>9 DEF MarkPaidDeadline, RowsTypeOK, TypeInv, eventVars, paymentVars,
                gatewayVars
  <2>2. ProgressNext(t, {EventId})
    BY <1>9 DEF MarkPaidDeadline, MarkPaidProgresses
  <2> QED
    BY <2>1, <2>2, ProgressTyped
<1> QED
  BY <1>1, <1>2, <1>3, <1>4, <1>5, <1>6, <1>7, <1>8, <1>9

LEMMA CronStepsTyped ==
  ASSUME TypeInv, NEW t \in Threads,
         \/ \E b \in Bookings : ExpireBooking(t, b)
         \/ PastCancelUndecided(t) \/ PastCompleteRunning(t) \/ PastCompleteEvent(t)
  PROVE  TypedStep
<1> USE JobTyped
<1>1. ASSUME NEW b \in Bookings, ExpireBooking(t, b) PROVE TypedStep
  <2>1. RowsTypeOK'
    BY <1>1 DEF ExpireBooking, RowsTypeOK, TypeInv, BookingStatus, eventVars,
                paymentVars, gatewayVars
  <2> DEFINE rest == job[t].rest \ {b}
  <2>2. rest \subseteq Bookings
    BY <1>1 DEF ExpireBooking, At, NoteOK, OneBookingSteps
  <2>3. NoteOK(Task("ecCancel", EventId, {}, rest, "NONE"))
    BY <2>2 DEF NoteOK, Task, OneBookingSteps
  <2>4. Finish(t) \/ Continue(t, Task("ecCancel", EventId, {}, rest, "NONE"))
    BY <1>1 DEF ExpireBooking
  <2> HIDE DEF rest
  <2> QED
    BY <2>1, <2>2, <2>3, <2>4, FinishTyped, TaskTyped DEF Steps
<1>2. CASE PastCancelUndecided(t) \/ PastCompleteRunning(t)
  <2>1. RowsTypeOK'
    BY <1>2 DEF PastCancelUndecided, PastCompleteRunning, PastWrite, WriteAll, RowsTypeOK,
                TypeInv, BookingStatus, eventVars, paymentVars, gatewayVars
  <2> QED
    BY <1>2, <2>1, OnTyped DEF PastCancelUndecided, PastCompleteRunning, PastWrite, Steps
<1>3. CASE PastCompleteEvent(t)
  <2>1. RowsTypeOK'
    BY <1>3 DEF PastCompleteEvent, RowsTypeOK, TypeInv, EventStatus, bookingVars,
                paymentVars, gatewayVars
  <2> QED
    BY <1>3, <2>1, FinishTyped DEF PastCompleteEvent
<1> QED
  BY <1>1, <1>2, <1>3

LEMMA AdvanceTyped ==
  ASSUME TypeInv, NEW t \in Threads, Advance(t) PROVE TypedStep
BY BookingStepsTyped, ProgressStepsTyped, PaymentStepsTyped, CronStepsTyped DEF Advance

LEMMA FailTyped ==
  ASSUME TypeInv, NEW t \in Threads, Fail(t) PROVE TypedStep
BY ReadsTyped, FinishTyped DEF Fail

LEMMA NextTyped == TypeInv /\ [Next]_vars => TypedStep
<1> SUFFICES ASSUME TypeInv, [Next]_vars PROVE TypedStep
  OBVIOUS
<1>1. CASE UNCHANGED vars
  BY <1>1 DEF vars, rowVars, bookingVars, eventVars, paymentVars, gatewayVars, TypedStep,
              TypeInv, RowsTypeOK, TaskOK, NoteOK, JobsKnown
<1> QED
  BY <1>1, EnvironmentTyped, CallTyped, CronTyped, AdvanceTyped, FailTyped DEF Next

LEMMA TypeInvariant == Spec => [](TypeInv /\ JobsKnown)
<1>1. TypeInv /\ JobsKnown /\ [Next]_vars => (TypeInv /\ JobsKnown)'
  BY NextTyped DEF TypedStep
<1> QED
  BY <1>1, InitTypeInv, PTL DEF Spec

(* Every column keeps to its enum and every handler goes from one of its     *)
(* calls to another with the data that call needs, however many requests     *)
(* are in flight and whichever of them fail.                                 *)
THEOREM TypeCorrect == Spec => []TypeOK
<1>1. TypeInv /\ JobsKnown => TypeOK
  BY DEF TypeInv, JobsKnown, TypeOK
<1> QED
  BY <1>1, TypeInvariant, PTL

-----------------------------------------------------------------------------
(* Money.  ChargedAtMostOnce is not inductive: the gateway charges several   *)
(* calls after createPayment has read that nothing was charged yet.  What    *)
(* makes it true is the unique key on Payment.bookingId: the handler that    *)
(* created the row is the only one on its way to a charge, and nothing is    *)
(* captured before it arrives.                                               *)

(* The calls of createPayment once its row is there. *)
ChargeSteps == {"payIntent", "payIntentRow", "payProcessing", "payCharge"}
MoneySteps  == ChargeSteps \union {"markPaid"}

Charging(t) == job[t].pc \in ChargeSteps

Real  == {b \in Bookings : payment[b] # "NONE" /\ providerReference[b] # "mock"}
Fresh == {b \in Bookings : captures[b] = 0 /\ intent[b] = "none"}
Taken == {b \in Bookings : captures[b] > 0}
Cash  == {b \in Bookings : method[b] = "CASH"}

(* What a payment row and the gateway say of one booking. *)
MoneyRow(b) ==
  /\ payment[b] = "NONE" => /\ captures[b] = 0 /\ intent[b] = "none" /\ ~paidAt[b]
                            /\ providerReference[b] = "none" /\ method[b] = "NONE"
  /\ intent[b] = "open" => captures[b] = 0
  /\ intent[b] = "succeeded" => captures[b] > 0
  /\ captures[b] <= 1
  /\ paidAt[b] /\ method[b] = "BANK_TRANSFER" /\ providerReference[b] # "mock"
       => captures[b] > 0

MoneyRows == \A b \in Bookings : MoneyRow(b)

(* What a handler knows of the money when it makes its next call. *)
MoneyJob(j, real, fresh, taken, cash) ==
  /\ j.pc \in ChargeSteps => j.b \in real
  /\ j.pc \in ChargeSteps \ {"payIntentRow"} => j.b \in fresh
  /\ j.pc = "markPaid" => j.b \in (IF j.note = "none" THEN cash ELSE taken)

MoneyInv ==
  /\ MoneyRows
  /\ \A t \in Threads : MoneyJob(job[t], Real, Fresh, Taken, Cash)
  /\ \A t, u \in Threads : Charging(t) /\ Charging(u) /\ job[t].b = job[u].b => t = u

(* Nothing that a handler relies on is taken back, but that the booking on   *)
(* which t is on its way to a charge is no longer untouched.                 *)
MoneyGrows  == Real \subseteq Real' /\ Taken \subseteq Taken' /\ Cash \subseteq Cash'
MoneyKept(t) == MoneyGrows /\ \A b \in Fresh \ Fresh' : Charging(t) /\ job[t].b = b

LEMMA MoneyInit == Init => MoneyInv
BY DEF Init, MoneyInv, MoneyRows, MoneyRow, MoneyJob, Charging, ChargeSteps, Idle, Task

(* A thread goes on: to an errand that carries no money, to the next call on *)
(* its own booking, or as the first on a booking that had no payment.        *)
LEMMA MoneyMoves ==
  ASSUME TypeInv, MoneyInv, MoneyRows', NEW t \in Threads, NEW j, Continue(t, j), MoneyKept(t),
         MoneyJob(j, Real', Fresh', Taken', Cash'),
         \/ j.pc \notin ChargeSteps
         \/ Charging(t) /\ j.b = job[t].b
         \/ j.b \notin Real
  PROVE  MoneyInv'
<1>1. \A u \in Threads : job'[u] = IF u = t THEN j ELSE job[u]
  BY DEF Continue, TypeInv
<1>2. ASSUME NEW u \in Threads PROVE MoneyJob(job'[u], Real', Fresh', Taken', Cash')
  <2>1. CASE u = t
    BY <1>1, <2>1
  <2>2. CASE u # t
    <3>1. MoneyJob(job[u], Real, Fresh, Taken, Cash) /\ job'[u] = job[u]
      BY <1>1, <2>2 DEF MoneyInv
    <3>2. Charging(u) /\ job[u].b \in Fresh => job[u].b \in Fresh'
      BY <2>2 DEF MoneyInv, MoneyKept
    <3> QED
      BY <3>1, <3>2 DEF MoneyJob, MoneyKept, MoneyGrows, Charging
  <2> QED
    BY <2>1, <2>2
<1>3. ASSUME NEW u \in Threads, u # t, job[u].pc \in ChargeSteps, j.pc \in ChargeSteps
      PROVE  job[u].b # j.b
  <2>1. job[u].b \in Real
    BY <1>3 DEF MoneyInv, MoneyJob
  <2>2. CASE Charging(t) /\ j.b = job[t].b
    BY <1>3, <2>2 DEF MoneyInv, Charging
  <2> QED
    BY <1>3, <2>1, <2>2
<1>4. ASSUME NEW u \in Threads, NEW v \in Threads, job'[u].pc \in ChargeSteps,
             job'[v].pc \in ChargeSteps, job'[u].b = job'[v].b
      PROVE  u = v
  <2>1. CASE u # t /\ v # t
    BY <1>1, <1>4, <2>1 DEF MoneyInv, Charging
  <2> QED
    BY <1>1, <1>3, <1>4, <2>1
<1> QED
  BY <1>2, <1>4 DEF MoneyInv, Charging

LEMMA MoneyUnmoved ==
  ASSUME MoneyInv, UNCHANGED <<paymentVars, gatewayVars>>
  PROVE  MoneyRows' /\ MoneyGrows /\ Fresh \subseteq Fresh'
BY DEF MoneyInv, MoneyRows, MoneyRow, MoneyGrows, Real, Fresh, Taken, Cash, paymentVars,
       gatewayVars

LEMMA QuietKeepsMoney ==
  ASSUME TypeInv, MoneyInv, UNCHANGED <<paymentVars, gatewayVars>>,
         NEW t \in Threads, NEW j, Continue(t, j), j.pc \notin MoneySteps
  PROVE  MoneyInv'
<1>1. MoneyJob(j, Real', Fresh', Taken', Cash') /\ j.pc \notin ChargeSteps
  BY DEF MoneyJob, MoneySteps
<1>2. MoneyKept(t)
  BY MoneyUnmoved DEF MoneyKept
<1> QED
  BY <1>1, <1>2, MoneyUnmoved, MoneyMoves

LEMMA FinishKeepsMoney ==
  ASSUME TypeInv, MoneyInv, UNCHANGED <<paymentVars, gatewayVars>>,
         NEW t \in Threads, Finish(t)
  PROVE  MoneyInv'
BY QuietKeepsMoney DEF Finish, Idle, Task, MoneySteps, ChargeSteps

LEMMA OnKeepsMoney ==
  ASSUME TypeInv, MoneyInv, UNCHANGED <<paymentVars, gatewayVars>>,
         NEW t \in Threads, NEW pc, NEW b, Continue(t, On(pc, b)), pc \notin MoneySteps
  PROVE  MoneyInv'
BY QuietKeepsMoney DEF On, Task

LEMMA TaskKeepsMoney ==
  ASSUME TypeInv, MoneyInv, UNCHANGED <<paymentVars, gatewayVars>>,
         NEW t \in Threads, NEW pc, NEW b, NEW ids, NEW rest, NEW note,
         Continue(t, Task(pc, b, ids, rest, note)), pc \notin MoneySteps
  PROVE  MoneyInv'
BY QuietKeepsMoney DEF Task

LEMMA ProgressKeepsMoney ==
  ASSUME TypeInv, MoneyInv, UNCHANGED <<paymentVars, gatewayVars>>,
         NEW t \in Threads, NEW S, ProgressNext(t, S)
  PROVE  MoneyInv'
BY FinishKeepsMoney, TaskKeepsMoney DEF ProgressNext, MoneySteps, ChargeSteps

LEMMA ReadsUnmoved ==
  ASSUME OnlyReads PROVE UNCHANGED <<paymentVars, gatewayVars>>
BY DEF OnlyReads, rowVars

LEMMA EnvironmentMoney ==
  ASSUME TypeInv, MoneyInv, Environment PROVE MoneyInv'
<1>1. job' = job
  BY DEF Environment, CreateEvent, CustomerPaysIntent, DeadlinePasses, EventTimePasses
<1>2. ASSUME MoneyRows', MoneyGrows, Fresh \subseteq Fresh' PROVE MoneyInv'
  BY <1>1, <1>2 DEF MoneyInv, MoneyGrows, MoneyJob, Charging
<1>3. ASSUME NEW b \in Bookings, CustomerPaysIntent(b) PROVE MoneyInv'
  <2>1. captures[b] = 0 /\ intent[b] = "open" /\ MoneyRow(b)
    BY <1>3 DEF CustomerPaysIntent, MoneyInv, MoneyRows, MoneyRow
  <2>2. /\ captures' = [captures EXCEPT ![b] = @ + 1]
        /\ intent' = [intent EXCEPT ![b] = "succeeded"]
        /\ UNCHANGED paymentVars
    BY <1>3 DEF CustomerPaysIntent, Charged
  <2>3. MoneyRows'
    BY <2>1, <2>2 DEF MoneyInv, MoneyRows, MoneyRow, paymentVars, TypeInv, RowsTypeOK
  <2>4. MoneyGrows /\ Fresh \subseteq Fresh'
    BY <2>1, <2>2 DEF MoneyGrows, Real, Fresh, Taken, Cash, paymentVars, TypeInv, RowsTypeOK
  <2> QED
    BY <1>2, <2>3, <2>4
<1>4. CASE \/ \E S \in SUBSET Bookings : CreateEvent(S)
           \/ \E b \in Bookings : DeadlinePasses(b)
           \/ EventTimePasses
  <2>1. UNCHANGED <<paymentVars, gatewayVars>>
    BY <1>4 DEF CreateEvent, DeadlinePasses, EventTimePasses
  <2> QED
    BY <1>2, <2>1, MoneyUnmoved
<1> QED
  BY <1>3, <1>4 DEF Environment

LEMMA CallMoney ==
  ASSUME TypeInv, MoneyInv, NEW t \in Threads, Call(t) PROVE MoneyInv'
<1>1. CASE AddServiceToEvent(t) \/ CancelEvent(t)
  BY <1>1, ReadsUnmoved, OnKeepsMoney
     DEF AddServiceToEvent, CancelEvent, MoneySteps, ChargeSteps
<1>2. ASSUME NEW b \in Bookings,
             \/ SendQuote(t, b) \/ RejectBooking(t, b) \/ CompleteBooking(t, b)
             \/ ConfirmQuote(t, b) \/ RejectQuote(t, b) \/ ConfirmPayment(t, b)
             \/ RefundPayment(t, b)
      PROVE  MoneyInv'
  BY <1>2, ReadsUnmoved, OnKeepsMoney
     DEF SendQuote, RejectBooking, CompleteBooking, ConfirmQuote, RejectQuote, ConfirmPayment,
         RefundPayment, MoneySteps, ChargeSteps
<1>3. ASSUME NEW b \in Bookings, NEW m \in PaymentMethod, CreatePayment(t, b, m)
      PROVE  MoneyInv'
  BY <1>3, ReadsUnmoved, TaskKeepsMoney DEF CreatePayment, MoneySteps, ChargeSteps
<1>4. ASSUME NEW b \in Bookings, MarkCashPaid(t, b) PROVE MoneyInv'
  <2> DEFINE j == Task("markPaid", b, {}, {}, "none")
  <2>1. MoneyRows' /\ MoneyKept(t) /\ b \in Cash'
    BY <1>4, ReadsUnmoved, MoneyUnmoved DEF MarkCashPaid, Cash, MoneyKept, MoneyGrows
  <2>2. MoneyJob(j, Real', Fresh', Taken', Cash') /\ j.pc \notin ChargeSteps
    BY <2>1 DEF MoneyJob, Task, ChargeSteps
  <2>3. Continue(t, j)
    BY <1>4 DEF MarkCashPaid
  <2> HIDE DEF j
  <2> QED
    BY <2>1, <2>2, <2>3, MoneyMoves
<1>5. ASSUME NEW accepted \in SUBSET Bookings, NEW rejected \in SUBSET Bookings,
             NEW m \in PaymentMethod, BulkQuoteDecision(t, accepted, rejected, m)
      PROVE  MoneyInv'
  BY <1>5, ReadsUnmoved, TaskKeepsMoney DEF BulkQuoteDecision, MoneySteps, ChargeSteps
<1> QED
  BY <1>1, <1>2, <1>3, <1>4, <1>5 DEF Call

LEMMA CronMoney ==
  ASSUME TypeInv, MoneyInv, NEW t \in Threads, CronPass(t) PROVE MoneyInv'
BY ReadsUnmoved, OnKeepsMoney, TaskKeepsMoney
   DEF CronPass, HandleExpiredBookings, CompletePastEvents, MoneySteps, ChargeSteps

LEMMA BookingStepsMoney ==
  ASSUME TypeInv, MoneyInv, NEW t \in Threads,
         \/ \E b \in Bookings : AddServiceCommit(t, b)
         \/ CancelEventRead(t) \/ CancelEventCommit(t)
         \/ SendQuoteCommit(t) \/ RejectBookingWrite(t) \/ CompleteBookingWrite(t)
         \/ ConfirmQuoteWrite(t) \/ CreateIfRequired(t)
         \/ RejectQuoteSiblings(t) \/ RejectQuoteCommit(t)
  PROVE  MoneyInv'
<1>1. CASE \/ \E b \in Bookings : AddServiceCommit(t, b)
           \/ CancelEventCommit(t) \/ SendQuoteCommit(t) \/ RejectBookingWrite(t)
           \/ CompleteBookingWrite(t) \/ RejectQuoteCommit(t)
  BY <1>1, FinishKeepsMoney
     DEF AddServiceCommit, CancelEventCommit, SendQuoteCommit, RejectBookingWrite,
         CompleteBookingWrite, ProviderWrite, RejectQuoteCommit
<1>2. CASE CancelEventRead(t) \/ RejectQuoteSiblings(t)
  BY <1>2, ReadsUnmoved, FinishKeepsMoney, TaskKeepsMoney
     DEF CancelEventRead, RejectQuoteSiblings, MoneySteps, ChargeSteps
<1>3. CASE ConfirmQuoteWrite(t) \/ CreateIfRequired(t)
  BY <1>3, OnKeepsMoney DEF ConfirmQuoteWrite, CreateIfRequired, MoneySteps, ChargeSteps
<1> QED
  BY <1>1, <1>2, <1>3

(* The bulk decision makes the rows of the accepted bookings, which had none *)
(* and on which nobody was at work.                                          *)
LEMMA BulkCommitMoney ==
  ASSUME TypeInv, MoneyInv, NEW t \in Threads, BulkCommit(t) PROVE MoneyInv'
<1> DEFINE accepted == job[t].ids
           m == job[t].note
           bank == IF m = "BANK_TRANSFER" THEN accepted ELSE {}
<1>1. m \in PaymentMethod /\ accepted \subseteq Bookings
  BY JobTyped DEF BulkCommit, At, NoteOK
<1>2. \A b \in accepted : payment[b] = "NONE" /\ MoneyRow(b)
  BY <1>1 DEF BulkCommit, MoneyInv, MoneyRows
<1>3. /\ payment' = WriteAll(payment, accepted, IF m = "CASH" THEN "PROCESSING" ELSE "PAID")
      /\ method' = WriteAll(method, accepted, m)
      /\ providerReference' = WriteAll(providerReference, bank, "mock")
      /\ paidAt' = WriteAll(paidAt, bank, TRUE)
      /\ captures' = captures /\ intent' = intent
      /\ ProgressNext(t, BulkCleared(accepted, m))
  BY DEF BulkCommit, gatewayVars
<1> HIDE DEF accepted, m, bank
<1>4. bank = IF m = "BANK_TRANSFER" THEN accepted ELSE {}
  BY DEF bank
<1>5. MoneyRows'
  <2> SUFFICES ASSUME NEW b \in Bookings PROVE MoneyRow(b)'
    BY DEF MoneyRows
  <2>1. MoneyRow(b)
    BY DEF MoneyInv, MoneyRows
  <2>2. CASE b \in accepted
    BY <1>1, <1>2, <1>3, <1>4, <2>2 DEF MoneyRow, WriteAll, PaymentMethod
  <2>3. CASE b \notin accepted
    BY <1>3, <1>4, <2>1, <2>3 DEF MoneyRow, WriteAll
  <2> QED
    BY <2>2, <2>3
<1>6. MoneyKept(t)
  <2>1. Real \subseteq Real'
    BY <1>2, <1>3, <1>4 DEF Real, WriteAll
  <2>2. Cash \subseteq Cash'
    BY <1>2, <1>3 DEF Cash, WriteAll, MoneyRow
  <2> QED
    BY <1>3, <2>1, <2>2 DEF MoneyKept, MoneyGrows, Fresh, Taken
<1>7. ASSUME NEW j, Continue(t, j), j.pc \notin MoneySteps PROVE MoneyInv'
  <2>1. MoneyJob(j, Real', Fresh', Taken', Cash') /\ j.pc \notin ChargeSteps
    BY <1>7 DEF MoneyJob, MoneySteps
  <2> QED
    BY <1>5, <1>6, <1>7, <2>1, MoneyMoves
<1> QED
  BY <1>3, <1>7 DEF ProgressNext, Finish, Idle, Task, MoneySteps, ChargeSteps

LEMMA ProgressStepsMoney ==
  ASSUME TypeInv, MoneyInv, NEW t \in Threads,
         \/ TryProgressEventRead(t) \/ TryProgressEventCommit(t)
         \/ \E b \in Bookings : TryProgressEventPaid(t, b)
         \/ BulkConflict(t) \/ BulkCommit(t)
         \/ \E x \in Bookings \union {EventId} : ProgressBookingRead(t, x)
         \/ ProgressEventRead(t) \/ ProgressCommit(t)
  PROVE  MoneyInv'
<1>1. CASE TryProgressEventRead(t) \/ ProgressEventRead(t) \/ BulkConflict(t)
  BY <1>1, ReadsUnmoved, FinishKeepsMoney, TaskKeepsMoney
     DEF TryProgressEventRead, ProgressEventRead, BulkConflict, MoneySteps, ChargeSteps
<1>2. ASSUME NEW b \in Bookings, TryProgressEventPaid(t, b) PROVE MoneyInv'
  <2> DEFINE rest == job[t].rest \ {b}
             ids == job[t].ids
             pc == IF rest = {} THEN "tpCommit" ELSE "tpPaid"
  <2>1. pc \notin MoneySteps
    BY DEF MoneySteps, ChargeSteps
  <2>2. Finish(t) \/ Continue(t, Task(pc, EventId, ids, rest, "NONE"))
    BY <1>2 DEF TryProgressEventPaid
  <2> HIDE DEF pc, ids, rest
  <2> QED
    BY <1>2, <2>1, <2>2, ReadsUnmoved, FinishKeepsMoney, TaskKeepsMoney
       DEF TryProgressEventPaid
<1>3. CASE TryProgressEventCommit(t) \/ ProgressCommit(t)
  BY <1>3, FinishKeepsMoney, ProgressKeepsMoney
     DEF TryProgressEventCommit, ProgressCommit, gatewayVars
<1>4. ASSUME NEW x \in Bookings \union {EventId}, ProgressBookingRead(t, x) PROVE MoneyInv'
  <2> DEFINE rest == job[t].rest \ {x}
  <2>1. Continue(t, Task("pbEvent", x, {}, rest, "NONE")) \/ ProgressNext(t, rest)
    BY <1>4 DEF ProgressBookingRead
  <2> HIDE DEF rest
  <2> QED
    BY <1>4, <2>1, ReadsUnmoved, TaskKeepsMoney, ProgressKeepsMoney
       DEF ProgressBookingRead, MoneySteps, ChargeSteps
<1> QED
  BY <1>1, <1>2, <1>3, <1>4, BulkCommitMoney

LEMMA PaymentStepsMoney ==
  ASSUME TypeInv, MoneyInv, NEW t \in Threads,
         \/ CreatePaymentRow(t) \/ GatewayCreateIntent(t) \/ IntentRowWrite(t)
         \/ ProcessElectronicPayment(t) \/ GatewayCharge(t) \/ GatewayVerifyIntent(t)
         \/ PaymentFailedWrite(t) \/ MarkPaidWrite(t) \/ MarkPaidDeadline(t)
         \/ RefundPaymentWrite(t)
  PROVE  MoneyInv'
<1> DEFINE b == job[t].b
<1> USE DEF TypeInv, RowsTypeOK
<1>1. /\ MoneyJob(job[t], Real, Fresh, Taken, Cash)
      /\ job[t].pc \in OneBookingSteps => b \in Bookings /\ MoneyRow(b)
      /\ job[t].pc = "markPaid" => job[t].note \in {"none", "charge", "intent"}
      /\ job[t].pc = "payRow" => job[t].note \in PaymentMethod
  BY JobTyped DEF MoneyInv, MoneyRows, NoteOK
<1>2. ASSUME NEW j, Continue(t, j), j.pc \notin MoneySteps,
             MoneyRows', MoneyKept(t)
      PROVE  MoneyInv'
  <2>1. MoneyJob(j, Real', Fresh', Taken', Cash') /\ j.pc \notin ChargeSteps
    BY <1>2 DEF MoneyJob, MoneySteps
  <2> QED
    BY <1>2, <2>1, MoneyMoves
<1>3. ASSUME NEW pc \in ChargeSteps, Continue(t, On(pc, b)), MoneyRows', MoneyKept(t),
             b \in Real', pc # "payIntentRow" => b \in Fresh', Charging(t) \/ b \notin Real
      PROVE  MoneyInv'
  <2> DEFINE j == On(pc, b)
  <2>1. MoneyJob(j, Real', Fresh', Taken', Cash') /\ j.b = b
    BY <1>3 DEF MoneyJob, On, Task, ChargeSteps
  <2> HIDE DEF j
  <2> QED
    BY <1>3, <2>1, MoneyMoves DEF j
<1>4. ASSUME NEW note \in {"charge", "intent"}, Continue(t, Task("markPaid", b, {}, {}, note)),
             MoneyRows', MoneyKept(t), b \in Taken'
      PROVE  MoneyInv'
  <2> DEFINE j == Task("markPaid", b, {}, {}, note)
  <2>1. MoneyJob(j, Real', Fresh', Taken', Cash') /\ j.pc \notin ChargeSteps
    BY <1>4 DEF MoneyJob, Task, ChargeSteps
  <2> HIDE DEF j
  <2> QED
    BY <1>4, <2>1, MoneyMoves DEF j
<1>5. CASE CreatePaymentRow(t)
  <2>1. b \in Bookings /\ MoneyRow(b) /\ job[t].note \in PaymentMethod
    BY <1>1, <1>5 DEF CreatePaymentRow, At, OneBookingSteps
  <2>2. CASE HasPaymentRow(b)
    BY <1>5, <2>2, FinishKeepsMoney DEF CreatePaymentRow, paymentVars
  <2>3. CASE ~HasPaymentRow(b)
    <3>1. /\ payment[b] = "NONE" /\ b \notin Real /\ b \in Fresh
          /\ payment' = [payment EXCEPT ![b] = "PENDING"]
          /\ method' = [method EXCEPT ![b] = job[t].note]
          /\ UNCHANGED <<providerReference, paidAt, gatewayVars>>
          /\ Finish(t) \/ Continue(t, On("payIntent", b))
      BY <1>5, <2>1, <2>3 DEF CreatePaymentRow, HasPaymentRow, Real, Fresh, MoneyRow
    <3> HIDE DEF b
    <3>2. MoneyRows'
      BY <2>1, <3>1 DEF MoneyInv, MoneyRows, MoneyRow, gatewayVars
    <3>3. MoneyKept(t) /\ b \in Real' /\ b \in Fresh'
      BY <2>1, <3>1 DEF MoneyRow, MoneyKept, MoneyGrows, Real, Fresh, Taken, Cash, gatewayVars
    <3> QED
      BY <1>2, <1>3, <3>1, <3>2, <3>3 DEF Finish, Idle, Task, MoneySteps, ChargeSteps
  <2> QED
    BY <2>2, <2>3
<1>6. CASE GatewayCreateIntent(t)
  <2>1. b \in Bookings /\ MoneyRow(b) /\ b \in Real /\ b \in Fresh /\ Charging(t)
    BY <1>1, <1>6 DEF GatewayCreateIntent, At, OneBookingSteps, MoneyJob, ChargeSteps, Charging
  <2>2. CASE intent' = [intent EXCEPT ![b] = "open"] /\ Continue(t, On("payIntentRow", b))
    <3>1. UNCHANGED <<paymentVars, captures>>
      BY <1>6 DEF GatewayCreateIntent
    <3>2. MoneyRows'
      BY <2>1, <2>2, <3>1 DEF MoneyInv, MoneyRows, MoneyRow, Fresh, Real, paymentVars
    <3>3. MoneyKept(t) /\ b \in Real'
      BY <2>1, <2>2, <3>1 DEF MoneyKept, MoneyGrows, Real, Fresh, Taken, Cash, paymentVars
    <3> QED
      BY <1>3, <2>1, <2>2, <3>2, <3>3 DEF ChargeSteps
  <2>3. CASE Continue(t, On("payProcessing", b)) /\ UNCHANGED intent
    <3>1. MoneyRows' /\ MoneyKept(t) /\ b \in Real' /\ b \in Fresh'
      BY <1>6, <2>1, <2>3, MoneyUnmoved DEF GatewayCreateIntent, gatewayVars, MoneyKept, MoneyGrows
    <3> QED
      BY <1>3, <2>1, <2>3, <3>1 DEF ChargeSteps
  <2> QED
    BY <1>6, <2>2, <2>3 DEF GatewayCreateIntent
<1>7. CASE IntentRowWrite(t)
  <2>1. b \in Bookings /\ MoneyRow(b) /\ b \in Real
    BY <1>1, <1>7 DEF IntentRowWrite, At, OneBookingSteps, MoneyJob, ChargeSteps
  <2>2. /\ payment' = [payment EXCEPT ![b] = "PROCESSING"]
        /\ providerReference' = [providerReference EXCEPT ![b] = "intent"]
        /\ UNCHANGED <<method, paidAt, gatewayVars>> /\ Finish(t)
    BY <1>7 DEF IntentRowWrite
  <2> HIDE DEF b
  <2>3. MoneyRows'
    BY <2>1, <2>2 DEF MoneyInv, MoneyRows, MoneyRow, Real, gatewayVars
  <2>4. MoneyKept(t)
    BY <2>1, <2>2 DEF MoneyKept, MoneyGrows, Real, Fresh, Taken, Cash, gatewayVars
  <2> QED
    BY <1>2, <2>2, <2>3, <2>4 DEF Finish, Idle, Task, MoneySteps, ChargeSteps
<1>8. ASSUME NEW s \in PaymentStatus, payment' = [payment EXCEPT ![b] = s], b \in Bookings,
             UNCHANGED <<method, providerReference, paidAt, gatewayVars>>
      PROVE  MoneyRows' /\ MoneyKept(t) /\ (b \in Fresh => b \in Fresh')
  <2> HIDE DEF b
  <2>1. MoneyRows'
    BY <1>8 DEF MoneyInv, MoneyRows, MoneyRow, PaymentStatus, gatewayVars
  <2>2. MoneyGrows /\ Fresh' = Fresh
    BY <1>8 DEF MoneyGrows, Real, Fresh, Taken, Cash, PaymentStatus, gatewayVars
  <2> QED
    BY <2>1, <2>2 DEF MoneyKept
<1>9. CASE ProcessElectronicPayment(t)
  <2>1. b \in Bookings /\ b \in Real /\ b \in Fresh /\ Charging(t)
    BY <1>1, <1>9 DEF ProcessElectronicPayment, PaymentWrite, At, OneBookingSteps, MoneyJob,
       ChargeSteps, Charging
  <2>2. MoneyRows' /\ MoneyKept(t) /\ b \in Fresh'
    BY <1>8, <1>9, <2>1 DEF ProcessElectronicPayment, PaymentWrite, PaymentStatus
  <2>3. b \in Real' /\ Continue(t, On("payCharge", b))
    BY <1>9, <2>1, <2>2 DEF ProcessElectronicPayment, MoneyKept, MoneyGrows
  <2> QED
    BY <1>3, <2>1, <2>2, <2>3 DEF ChargeSteps
<1>10. CASE PaymentFailedWrite(t) \/ RefundPaymentWrite(t)
  <2>1. b \in Bookings
    BY <1>1, <1>10 DEF PaymentFailedWrite, RefundPaymentWrite, PaymentWrite, At, OneBookingSteps
  <2>2. MoneyRows' /\ MoneyKept(t)
    BY <1>8, <1>10, <2>1
       DEF PaymentFailedWrite, RefundPaymentWrite, PaymentWrite, PaymentStatus
  <2> QED
    BY <1>2, <1>10, <2>2
       DEF PaymentFailedWrite, RefundPaymentWrite, Finish, Idle, Task, MoneySteps, ChargeSteps
<1>11. CASE GatewayCharge(t)
  <2>1. b \in Bookings /\ MoneyRow(b) /\ b \in Real /\ b \in Fresh /\ Charging(t)
    BY <1>1, <1>11 DEF GatewayCharge, At, OneBookingSteps, MoneyJob, ChargeSteps, Charging
  <2>2. UNCHANGED <<paymentVars, intent>>
    BY <1>11 DEF GatewayCharge
  <2>3. CASE Charged(b)
    <3>1. captures' = [captures EXCEPT ![b] = @ + 1] /\ captures[b] = 0 /\ payment[b] # "NONE"
      BY <2>1, <2>3 DEF Charged, Fresh, Real
    <3>2. \/ Continue(t, Task("markPaid", b, {}, {}, "charge"))
          \/ Continue(t, On("payFailed", b))
      BY <1>11 DEF GatewayCharge
    <3> HIDE DEF b
    <3>3. MoneyRows'
      BY <2>1, <2>2, <3>1 DEF MoneyInv, MoneyRows, MoneyRow, Fresh, paymentVars
    <3>4. MoneyGrows /\ Fresh \ Fresh' \subseteq {b} /\ b \in Taken'
      BY <2>1, <2>2, <3>1 DEF MoneyGrows, Real, Fresh, Taken, Cash, paymentVars
    <3>5. MoneyKept(t)
      BY <2>1, <3>4 DEF MoneyKept, b
    <3> QED
      BY <1>2, <1>4, <2>1, <3>2, <3>3, <3>4, <3>5 DEF On, Task, MoneySteps, ChargeSteps, b
  <2>4. CASE UNCHANGED captures /\ Continue(t, On("payFailed", b))
    BY <2>2, <2>4, OnKeepsMoney DEF gatewayVars, MoneySteps, ChargeSteps
  <2> QED
    BY <1>11, <2>3, <2>4 DEF GatewayCharge
<1>12. CASE GatewayVerifyIntent(t)
  <2>1. b \in Bookings /\ MoneyRow(b) /\ UNCHANGED <<paymentVars, gatewayVars>>
    BY <1>1, <1>12, ReadsUnmoved DEF GatewayVerifyIntent, At, OneBookingSteps
  <2>2. CASE IntentSucceeded(b) /\ Continue(t, Task("markPaid", b, {}, {}, "intent"))
    <3>1. MoneyRows' /\ MoneyKept(t) /\ b \in Taken
      BY <2>1, <2>2, MoneyUnmoved DEF IntentSucceeded, MoneyRow, Taken, MoneyKept
    <3> QED
      BY <1>4, <2>2, <3>1 DEF MoneyKept, MoneyGrows
  <2>3. CASE Continue(t, On("payFailed", b))
    BY <2>1, <2>3, OnKeepsMoney DEF MoneySteps, ChargeSteps
  <2> QED
    BY <1>12, <2>2, <2>3 DEF GatewayVerifyIntent
<1>13. CASE MarkPaidWrite(t)
  <2>1. /\ b \in Bookings /\ MoneyRow(b) /\ job[t].note \in {"none", "charge", "intent"}
        /\ IF job[t].note = "none" THEN method[b] = "CASH" ELSE captures[b] > 0
    BY <1>1, <1>13 DEF MarkPaidWrite, At, OneBookingSteps, MoneyJob, Cash, Taken
  <2>2. /\ payment' = [payment EXCEPT ![b] = "PAID"]
        /\ paidAt' = [paidAt EXCEPT ![b] = TRUE]
        /\ providerReference' = [providerReference EXCEPT
                                   ![b] = IF job[t].note = "none" THEN @ ELSE job[t].note]
        /\ UNCHANGED <<method, gatewayVars>> /\ Continue(t, On("mpDeadline", b))
    BY <1>13 DEF MarkPaidWrite
  <2> HIDE DEF b
  <2>3. MoneyRows'
    BY <2>1, <2>2 DEF MoneyInv, MoneyRows, MoneyRow, gatewayVars
  <2>4. MoneyKept(t)
    BY <2>1, <2>2 DEF MoneyKept, MoneyGrows, Real, Fresh, Taken, Cash, gatewayVars
  <2> QED
    BY <1>2, <2>2, <2>3, <2>4 DEF On, Task, MoneySteps, ChargeSteps
<1>14. CASE MarkPaidDeadline(t)
  BY <1>14, ProgressKeepsMoney DEF MarkPaidDeadline
<1> QED
  BY <1>5, <1>6, <1>7, <1>9, <1>10, <1>11, <1>12, <1>13, <1>14

LEMMA CronStepsMoney ==
  ASSUME TypeInv, MoneyInv, NEW t \in Threads,
         \/ \E b \in Bookings : ExpireBooking(t, b)
         \/ PastCancelUndecided(t) \/ PastCompleteRunning(t) \/ PastCompleteEvent(t)
  PROVE  MoneyInv'
<1>1. CASE \E b \in Bookings : ExpireBooking(t, b)
  BY <1>1, FinishKeepsMoney, TaskKeepsMoney DEF ExpireBooking, MoneySteps, ChargeSteps
<1>2. CASE PastCancelUndecided(t) \/ PastCompleteRunning(t) \/ PastCompleteEvent(t)
  BY <1>2, FinishKeepsMoney, OnKeepsMoney
     DEF PastCancelUndecided, PastCompleteRunning, PastWrite, PastCompleteEvent, MoneySteps,
         ChargeSteps
<1> QED
  BY <1>1, <1>2

LEMMA NextMoney == TypeInv /\ MoneyInv /\ [Next]_vars => MoneyInv'
<1> SUFFICES ASSUME TypeInv, MoneyInv, [Next]_vars PROVE MoneyInv'
  OBVIOUS
<1>1. ASSUME NEW t \in Threads, Advance(t) PROVE MoneyInv'
  BY <1>1, BookingStepsMoney, ProgressStepsMoney, PaymentStepsMoney, CronStepsMoney DEF Advance
<1>2. ASSUME NEW t \in Threads, Fail(t) PROVE MoneyInv'
  BY <1>2, ReadsUnmoved, FinishKeepsMoney DEF Fail
<1>3. CASE UNCHANGED vars
  <2>1. MoneyRows' /\ MoneyGrows /\ Fresh \subseteq Fresh' /\ job' = job
    BY <1>3, MoneyUnmoved DEF vars, rowVars
  <2> QED
    BY <2>1 DEF MoneyInv, MoneyGrows, MoneyJob, Charging
<1> QED
  BY <1>1, <1>2, <1>3, EnvironmentMoney, CallMoney, CronMoney DEF Next

LEMMA MoneyInvariant == Spec => []MoneyInv
BY TypeInvariant, MoneyInit, NextMoney, PTL DEF Spec

(* The gateway takes the money for a booking at most once, whatever          *)
(* createPayment and confirmPayment calls run at the same time, retry or     *)
(* fail half way.                                                            *)
THEOREM ChargedOnce == Spec => []ChargedAtMostOnce
<1>1. MoneyInv => ChargedAtMostOnce
  BY DEF MoneyInv, MoneyRows, MoneyRow, ChargedAtMostOnce
<1> QED
  BY <1>1, MoneyInvariant, PTL

(* No transfer is marked as paid on the word of a client: the gateway has    *)
(* captured the money of every booking paid by a real transfer.              *)
THEOREM PaidIsVerified == Spec => []VerifiedBeforePaid
<1>1. MoneyInv => VerifiedBeforePaid
  BY DEF MoneyInv, MoneyRows, MoneyRow, VerifiedBeforePaid
<1> QED
  BY <1>1, MoneyInvariant, PTL
=============================================================================
