----------------------- MODULE EventBookingsPaidProofs -----------------------
(***************************************************************************)
(* Proofs that payment is a gate in EventBookings: what runs has been      *)
(* paid, for any set of bookings, any number of concurrent requests and    *)
(* any choice of what may fail.                                            *)
(*                                                                         *)
(* The gate is not inductive: a handler that has seen a payment starts the *)
(* service several calls later.  JobBacked says what the task of a thread  *)
(* knows about the payments in between; it stays true because a payment    *)
(* that cleared stays cleared (PaidStays).                                 *)
(*                                                                         *)
(* The second half shows, step by step, that the system implements the     *)
(* abstract PaymentGate.                                                   *)
(***************************************************************************)
EXTENDS EventBookingsProofs

Paid == {b \in Bookings : paidAt[b]}

(* The bookings a task names. *)
Named(j) == ({j.b} \union j.ids \union j.rest) \intersect Bookings

(* What the task j can count on when the bookings in paid have been paid    *)
(* and those in rows exist.                                                 *)
JobBacked(j, paid, rows) ==
  /\ Named(j) \subseteq rows
  /\ j.pc = "tpPaid" => j.ids # {} /\ j.ids \ j.rest \subseteq paid
  /\ j.pc = "tpCommit" => j.ids # {} /\ j.ids \subseteq paid
  /\ j.pc \in {"pbBooking", "pbEvent", "pbCommit"} => j.rest \intersect Bookings \subseteq paid
  /\ j.pc \in {"completeBooking", "mpDeadline", "pbEvent", "pbCommit"} => j.b \in paid
  /\ j.pc \in {"peUndecided", "peComplete", "peEvent"} => paid # {}

JobsBacked  == \A t \in Threads : JobBacked(job[t], Paid, Present)
PaidIsDated == \A b \in Bookings : IsPaid(b) => paidAt[b]
PaymentHasRow == \A b \in Bookings : payment[b] # "NONE" => b \in Present

RowsPaid ==
  PaidIsDated /\ PaymentHasRow /\ PaidGate /\ EventStartedIsPaid /\ NoDeadlineMeansPaid

(* The inductive invariant. *)
PaidInv == RowsPaid /\ JobsBacked

LEMMA InitPaidInv == Init => PaidInv
<1> SUFFICES ASSUME Init PROVE PaidInv
  OBVIOUS
<1>1. RowsPaid
  BY DEF Init, RowsPaid, PaidIsDated, PaymentHasRow, IsPaid, PaidGate, WithStatus, Started,
         EventStartedIsPaid, NoDeadlineMeansPaid, Present
<1>2. JobsBacked
  BY ConstantsAssumption DEF Init, JobsBacked, JobBacked, Named, Idle, Task
<1> QED
  BY <1>1, <1>2 DEF PaidInv

(* More payments and more rows take nothing from a task. *)
LEMMA BackedGrows ==
  ASSUME NEW j, NEW paid, NEW rows, NEW morePaid, NEW moreRows, JobBacked(j, paid, rows),
         paid \subseteq morePaid, rows \subseteq moreRows
  PROVE  JobBacked(j, morePaid, moreRows)
BY DEF JobBacked

(* No step makes a payment or a row disappear. *)
Grows == Paid \subseteq Paid' /\ Present \subseteq Present'

(* A backed task of one thread keeps all tasks backed. *)
LEMMA ContinueBacked ==
  ASSUME TypeInv, PaidInv, RowsPaid', Grows, NEW t \in Threads, NEW j, Continue(t, j),
         JobBacked(j, Paid', Present')
  PROVE  PaidInv'
<1>1. \A u \in Threads : job'[u] = j \/ job'[u] = job[u]
  BY DEF Continue, TypeInv
<1>2. \A u \in Threads : JobBacked(job[u], Paid', Present')
  BY BackedGrows DEF PaidInv, JobsBacked, Grows
<1>3. JobsBacked'
  BY <1>1, <1>2 DEF JobsBacked
<1> QED
  BY <1>3 DEF PaidInv

LEMMA FinishBacked ==
  ASSUME TypeInv, PaidInv, RowsPaid', Grows, NEW t \in Threads, Finish(t)
  PROVE  PaidInv'
<1>1. JobBacked(Idle, Paid', Present')
  BY ConstantsAssumption DEF JobBacked, Named, Idle, Task
<1> QED
  BY <1>1, ContinueBacked DEF Finish

LEMMA ProgressBacked ==
  ASSUME TypeInv, PaidInv, RowsPaid', Grows, NEW t \in Threads, NEW S,
         ProgressNext(t, S), S \intersect Bookings \subseteq Paid' \intersect Present'
  PROVE  PaidInv'
<1>1. CASE S = {}
  BY <1>1, FinishBacked DEF ProgressNext
<1>2. CASE S # {}
  <2>1. JobBacked(Task("pbBooking", EventId, {}, S, "NONE"), Paid', Present')
    BY ConstantsAssumption DEF JobBacked, Named, Task
  <2> QED
    BY <1>2, <2>1, ContinueBacked DEF ProgressNext
<1> QED
  BY <1>1, <1>2

LEMMA JobIsBacked ==
  ASSUME PaidInv, NEW t \in Threads PROVE JobBacked(job[t], Paid, Present)
BY DEF PaidInv, JobsBacked

(* A step that only reads moves nothing but the task of its thread. *)
LEMMA ReadsKeep ==
  ASSUME PaidInv, OnlyReads
  PROVE  /\ RowsPaid' /\ Grows
         /\ Paid' = Paid /\ Present' = Present
BY DEF OnlyReads, rowVars, bookingVars, eventVars, paymentVars, gatewayVars, PaidInv,
       RowsPaid, PaidIsDated, PaymentHasRow, IsPaid, PaidGate, WithStatus, Started,
       EventStartedIsPaid, NoDeadlineMeansPaid, Present, Paid, Grows

(* What a step that writes bookings or the event, and no payment, must respect. *)
LEMMA BookingsKeep ==
  ASSUME PaidInv, UNCHANGED <<payment, paidAt>>,
         \A b \in Bookings : status'[b] # status[b] =>
            /\ status'[b] # "NONE"
            /\ status'[b] \in Started => b \in Paid
            /\ b \in Present \/ deadline'[b] # "none",
         \A b \in Bookings : deadline'[b] = "none" => deadline[b] = "none" \/ b \in Paid,
         event' \in Started => event \in Started \/ Paid # {}
  PROVE  RowsPaid' /\ Grows
BY DEF PaidInv, RowsPaid, PaidIsDated, PaymentHasRow, IsPaid, PaidGate, WithStatus, Started,
       EventStartedIsPaid, NoDeadlineMeansPaid, Present, Paid, Grows

(* What a step that writes payments only must respect. *)
LEMMA PaymentsKeep ==
  ASSUME PaidInv, UNCHANGED <<bookingVars, eventVars>>,
         \A b \in Bookings :
            /\ paidAt[b] => paidAt'[b]
            /\ payment'[b] = "PAID" => payment[b] = "PAID" \/ paidAt'[b]
            /\ payment'[b] # "NONE" => payment[b] # "NONE" \/ b \in Present
  PROVE  RowsPaid' /\ Grows
BY DEF bookingVars, eventVars, PaidInv, RowsPaid, PaidIsDated, PaymentHasRow, IsPaid,
       PaidGate, WithStatus, Started, EventStartedIsPaid, NoDeadlineMeansPaid, Present,
       Paid, Grows

LEMMA EnvironmentPaid ==
  ASSUME TypeInv, PaidInv, Environment PROVE PaidInv'
<1>1. RowsPaid' /\ Grows
  <2>1. CASE \E S \in SUBSET Bookings : CreateEvent(S)
    BY <2>1, BookingsKeep DEF CreateEvent, InsertBookings, WriteAll, paymentVars, TypeInv,
       RowsTypeOK, Started
  <2>2. CASE \E b \in Bookings : CustomerPaysIntent(b)
    BY <2>2, PaymentsKeep DEF CustomerPaysIntent, paymentVars
  <2>3. CASE \E b \in Bookings : DeadlinePasses(b)
    BY <2>3, BookingsKeep DEF DeadlinePasses, eventVars, paymentVars, TypeInv,
       RowsTypeOK
  <2>4. CASE EventTimePasses
    BY <2>4, BookingsKeep DEF EventTimePasses, bookingVars, paymentVars
  <2> QED
    BY <2>1, <2>2, <2>3, <2>4 DEF Environment
<1>2. job' = job
  BY DEF Environment, CreateEvent, CustomerPaysIntent, DeadlinePasses, EventTimePasses
<1>3. JobsBacked'
  BY <1>1, <1>2, BackedGrows DEF PaidInv, JobsBacked, Grows
<1> QED
  BY <1>1, <1>3 DEF PaidInv

(* A request starts with bookings it read; completeBooking with one that    *)
(* runs, and therefore is paid.                                             *)
LEMMA CallPaid ==
  ASSUME TypeInv, PaidInv, NEW t \in Threads, Call(t) PROVE PaidInv'
<1> USE ConstantsAssumption
<1>1. CASE AddServiceToEvent(t) \/ CancelEvent(t)
  <2>1. /\ JobBacked(On("addService", EventId), Paid, Present)
        /\ JobBacked(On("ceRead", EventId), Paid, Present)
    BY DEF JobBacked, Named, On, Task
  <2> QED
    BY <1>1, <2>1, ReadsKeep, ContinueBacked DEF AddServiceToEvent, CancelEvent
<1>2. ASSUME NEW b \in Bookings,
             \/ SendQuote(t, b) \/ RejectBooking(t, b) \/ ConfirmQuote(t, b)
             \/ RejectQuote(t, b) \/ ConfirmPayment(t, b) \/ RefundPayment(t, b)
      PROVE  PaidInv'
  <2>1. b \in Present
    BY <1>2 DEF SendQuote, RejectBooking, ConfirmQuote, RejectQuote, ConfirmPayment,
       RefundPayment, Present, PaidInv, RowsPaid, PaymentHasRow
  <2>2. \A pc \in {"sendQuote", "rejectBooking", "cqConfirm", "rqSiblings", "payVerify",
                    "refund"} : JobBacked(On(pc, b), Paid, Present)
    BY <2>1 DEF JobBacked, Named, On, Task
  <2> QED
    BY <1>2, <2>2, ReadsKeep, ContinueBacked DEF SendQuote, RejectBooking, ConfirmQuote,
       RejectQuote, ConfirmPayment, RefundPayment
<1>3. ASSUME NEW b \in Bookings, CompleteBooking(t, b) PROVE PaidInv'
  <2>1. b \in Present \intersect Paid
    BY <1>3 DEF CompleteBooking, Present, Paid, PaidInv, RowsPaid, PaidGate, WithStatus,
       Started
  <2>2. JobBacked(On("completeBooking", b), Paid, Present)
    BY <2>1 DEF JobBacked, Named, On, Task
  <2> QED
    BY <1>3, <2>2, ReadsKeep, ContinueBacked DEF CompleteBooking
<1>4. ASSUME NEW b \in Bookings, NEW m \in PaymentMethod, CreatePayment(t, b, m)
      PROVE  PaidInv'
  <2>1. JobBacked(Task("payRow", b, {}, {}, m), Paid, Present)
    BY <1>4 DEF CreatePayment, Present, JobBacked, Named, Task
  <2> QED
    BY <1>4, <2>1, ReadsKeep, ContinueBacked DEF CreatePayment
<1>5. ASSUME NEW b \in Bookings, MarkCashPaid(t, b) PROVE PaidInv'
  <2>1. b \in Present
    BY <1>5 DEF MarkCashPaid, PaidInv, RowsPaid, PaymentHasRow
  <2>2. JobBacked(Task("markPaid", b, {}, {}, "none"), Paid, Present)
    BY <2>1 DEF JobBacked, Named, Task
  <2> QED
    BY <1>5, <2>2, ReadsKeep, ContinueBacked DEF MarkCashPaid
<1>6. ASSUME NEW accepted \in SUBSET Bookings, NEW rejected \in SUBSET Bookings,
             NEW m \in PaymentMethod, BulkQuoteDecision(t, accepted, rejected, m)
      PROVE  PaidInv'
  <2>1. accepted \union rejected \subseteq Present
    BY <1>6 DEF BulkQuoteDecision, Present
  <2>2. JobBacked(Task("bulkCommit", EventId, accepted, rejected, m), Paid, Present)
    BY <2>1 DEF JobBacked, Named, Task
  <2> QED
    BY <1>6, <2>2, ReadsKeep, ContinueBacked DEF BulkQuoteDecision
<1> QED
  BY <1>1, <1>2, <1>3, <1>4, <1>5, <1>6 DEF Call

(* The pass over the past events starts from an event that runs. *)
LEMMA CronPaid ==
  ASSUME TypeInv, PaidInv, NEW t \in Threads, CronPass(t) PROVE PaidInv'
<1> USE ConstantsAssumption
<1>1. CASE HandleExpiredBookings(t)
  <2>1. Expired \subseteq Present
    BY DEF Expired, Expirable, WithStatus, Present
  <2>2. JobBacked(Task("ecCancel", EventId, {}, Expired, "NONE"), Paid, Present)
    BY <2>1 DEF JobBacked, Named, Task
  <2> QED
    BY <1>1, <2>2, ReadsKeep, ContinueBacked DEF HandleExpiredBookings
<1>2. CASE CompletePastEvents(t)
  <2>1. Paid # {}
    BY <1>2 DEF CompletePastEvents, PaidInv, RowsPaid, EventStartedIsPaid, Started, Paid
  <2>2. JobBacked(On("peUndecided", EventId), Paid, Present)
    BY <2>1 DEF JobBacked, Named, On, Task
  <2> QED
    BY <1>2, <2>2, ReadsKeep, ContinueBacked DEF CompletePastEvents
<1> QED
  BY <1>1, <1>2 DEF CronPass

LEMMA BookingStepsPaid ==
  ASSUME TypeInv, PaidInv, NEW t \in Threads,
         \/ \E b \in Bookings : AddServiceCommit(t, b)
         \/ CancelEventRead(t) \/ CancelEventCommit(t)
         \/ SendQuoteCommit(t) \/ RejectBookingWrite(t) \/ CompleteBookingWrite(t)
         \/ ConfirmQuoteWrite(t) \/ CreateIfRequired(t)
         \/ RejectQuoteSiblings(t) \/ RejectQuoteCommit(t)
  PROVE  PaidInv'
<1> USE ConstantsAssumption, JobIsBacked, JobTyped
<1>1. ASSUME NEW b \in Bookings, AddServiceCommit(t, b) PROVE PaidInv'
  <2>1. RowsPaid' /\ Grows
    BY <1>1, BookingsKeep DEF AddServiceCommit, InsertBookings, WriteAll, eventVars,
       paymentVars, TypeInv, RowsTypeOK, Started
  <2> QED
    BY <1>1, <2>1, FinishBacked DEF AddServiceCommit
<1>2. CASE CancelEventRead(t)
  <2> DEFINE ids == Present \ WithStatus({"CANCELLED", "REJECTED"})
  <2>1. JobBacked(Task("ceCommit", EventId, ids, {}, "NONE"), Paid, Present)
    BY DEF JobBacked, Named, Task
  <2> QED
    BY <1>2, <2>1, ReadsKeep, FinishBacked, ContinueBacked DEF CancelEventRead
<1>3. CASE CancelEventCommit(t)
  <2>1. job[t].ids \subseteq Present
    BY DEF JobBacked, Named, Tasks
  <2>2. RowsPaid' /\ Grows
    BY <1>3, <2>1, BookingsKeep DEF CancelEventCommit, WriteAll, paymentVars, TypeInv,
       RowsTypeOK, Started
  <2> QED
    BY <1>3, <2>2, FinishBacked DEF CancelEventCommit
<1>4. CASE SendQuoteCommit(t)
  <2>1. job[t].b \in Present
    BY <1>4 DEF SendQuoteCommit, At, NoteOK, OneBookingSteps, JobBacked, Named
  <2>2. RowsPaid' /\ Grows
    BY <1>4, <2>1, BookingsKeep DEF SendQuoteCommit, eventVars, paymentVars, TypeInv,
       RowsTypeOK, Started
  <2> QED
    BY <1>4, <2>2, FinishBacked DEF SendQuoteCommit
<1>5. CASE RejectBookingWrite(t)
  <2>1. job[t].b \in Present
    BY <1>5 DEF RejectBookingWrite, ProviderWrite, At, NoteOK, OneBookingSteps, JobBacked, Named
  <2>2. RowsPaid' /\ Grows
    BY <1>5, <2>1, BookingsKeep DEF RejectBookingWrite, ProviderWrite, eventVars, paymentVars,
       TypeInv, RowsTypeOK, Started
  <2> QED
    BY <1>5, <2>2, FinishBacked DEF RejectBookingWrite, ProviderWrite
<1>6. CASE CompleteBookingWrite(t)
  <2>1. job[t].b \in Present \intersect Paid
    BY <1>6 DEF CompleteBookingWrite, ProviderWrite, At, NoteOK, OneBookingSteps, JobBacked, Named
  <2>2. RowsPaid' /\ Grows
    BY <1>6, <2>1, BookingsKeep DEF CompleteBookingWrite, ProviderWrite, eventVars,
       paymentVars, TypeInv, RowsTypeOK
  <2> QED
    BY <1>6, <2>2, FinishBacked DEF CompleteBookingWrite, ProviderWrite
<1>7. CASE ConfirmQuoteWrite(t)
  <2>1. job[t].b \in Present
    BY <1>7 DEF ConfirmQuoteWrite, At, NoteOK, OneBookingSteps, JobBacked, Named
  <2>2. RowsPaid' /\ Grows
    BY <1>7, <2>1, BookingsKeep DEF ConfirmQuoteWrite, eventVars, paymentVars, TypeInv,
       RowsTypeOK, Started
  <2>3. JobBacked(On("cqDelivery", job[t].b), Paid, Present)
    BY <2>1 DEF JobBacked, Named, On, Task
  <2> QED
    BY <1>7, <2>2, <2>3, BackedGrows, ContinueBacked DEF ConfirmQuoteWrite, Grows
<1>8. CASE CreateIfRequired(t)
  <2>1. RowsPaid' /\ Grows
    BY <1>8, PaymentsKeep DEF CreateIfRequired, paymentVars
  <2>2. JobBacked(On("tpRead", EventId), Paid', Present')
    BY DEF JobBacked, Named, On, Task
  <2> QED
    BY <1>8, <2>1, <2>2, ContinueBacked DEF CreateIfRequired
<1>9. CASE RejectQuoteSiblings(t)
  <2> DEFINE b == job[t].b
             n == NewEventStatus(Present \ {b})
  <2>1. JobBacked(Task("rqCommit", b, {}, {}, n), Paid, Present)
    BY DEF JobBacked, Named, Task
  <2>2. OnlyReads /\ Continue(t, Task("rqCommit", b, {}, {}, n))
    BY <1>9 DEF RejectQuoteSiblings
  <2> HIDE DEF b, n
  <2> QED
    BY <2>1, <2>2, ReadsKeep, ContinueBacked
<1>10. CASE RejectQuoteCommit(t)
  <2>1. job[t].b \in Present /\ event' \in {event, "CANCELLED", "DRAFT"}
    BY <1>10 DEF RejectQuoteCommit, At, NoteOK, OneBookingSteps, JobBacked, Named
  <2>2. RowsPaid' /\ Grows
    BY <1>10, <2>1, BookingsKeep DEF RejectQuoteCommit, paymentVars, TypeInv,
       RowsTypeOK, Started
  <2> QED
    BY <1>10, <2>2, FinishBacked DEF RejectQuoteCommit
<1> QED
  BY <1>1, <1>2, <1>3, <1>4, <1>5, <1>6, <1>7, <1>8, <1>9, <1>10

(* The steps between a payment and the start of the service. *)
LEMMA ProgressStepsPaid ==
  ASSUME TypeInv, PaidInv, NEW t \in Threads,
         \/ TryProgressEventRead(t) \/ TryProgressEventCommit(t)
         \/ \E b \in Bookings : TryProgressEventPaid(t, b)
         \/ BulkConflict(t) \/ BulkCommit(t)
         \/ \E x \in Bookings \union {EventId} : ProgressBookingRead(t, x)
         \/ ProgressEventRead(t) \/ ProgressCommit(t)
  PROVE  PaidInv'
<1> USE ConstantsAssumption, JobIsBacked, JobTyped
<1>1. CASE TryProgressEventRead(t)
  <2> DEFINE confirmed == WithStatus({"CONFIRMED"})
             j == Task("tpPaid", EventId, confirmed, confirmed, "NONE")
  <2>1. confirmed \subseteq Present
    BY DEF WithStatus, Present
  <2>2. confirmed # {} => JobBacked(j, Paid, Present)
    BY <2>1 DEF JobBacked, Named, Task
  <2>3. OnlyReads /\ (Finish(t) \/ (confirmed # {} /\ Continue(t, j)))
    BY <1>1 DEF TryProgressEventRead
  <2> HIDE DEF confirmed, j
  <2> QED
    BY <2>2, <2>3, ReadsKeep, FinishBacked, ContinueBacked
<1>2. ASSUME NEW b \in Bookings, TryProgressEventPaid(t, b) PROVE PaidInv'
  <2> DEFINE rest == job[t].rest \ {b}
             ids == job[t].ids
             j == Task(IF rest = {} THEN "tpCommit" ELSE "tpPaid", EventId, ids, rest, "NONE")
  <2>1. OnlyReads /\ (Finish(t) \/ (b \in Paid /\ Continue(t, j)))
    BY <1>2 DEF TryProgressEventPaid, PaidInv, RowsPaid, PaidIsDated, Paid
  <2>2. ids # {} /\ ids \ job[t].rest \subseteq Paid /\ ids \union rest \subseteq Present
    BY <1>2 DEF TryProgressEventPaid, At, NoteOK, OneBookingSteps, JobBacked, Named, Tasks
  <2>3. b \in Paid => JobBacked(j, Paid, Present)
    BY <2>2 DEF JobBacked, Named, Task
  <2> HIDE DEF rest, ids, j
  <2> QED
    BY <2>1, <2>3, ReadsKeep, FinishBacked, ContinueBacked
<1>3. CASE TryProgressEventCommit(t)
  <2>1. job[t].ids # {} /\ job[t].ids \subseteq Paid \intersect Present
    BY <1>3 DEF TryProgressEventCommit, At, JobBacked, Named, Tasks
  <2>2. RowsPaid' /\ Grows
    BY <1>3, <2>1, BookingsKeep DEF TryProgressEventCommit, WriteAll, paymentVars, TypeInv,
       RowsTypeOK
  <2> QED
    BY <1>3, <2>2, FinishBacked DEF TryProgressEventCommit
<1>4. CASE BulkConflict(t)
  BY <1>4, ReadsKeep, FinishBacked DEF BulkConflict
<1>5. CASE BulkCommit(t)
  <2> DEFINE accepted == job[t].ids
             rejected == job[t].rest
             m == job[t].note
             S == BulkCleared(accepted, m)
  <2>1. /\ m \in PaymentMethod
        /\ accepted \union rejected \subseteq Present
    BY <1>5 DEF BulkCommit, At, NoteOK, OneBookingSteps, JobBacked, Named, Tasks
  <2>2. /\ S \subseteq accepted /\ S \subseteq Paid'
        /\ \A b \in Bookings : paidAt[b] => paidAt'[b]
    <3>1. paidAt' = [b \in Bookings |-> IF b \in S THEN TRUE ELSE paidAt[b]]
      BY <1>5 DEF BulkCommit, BulkCleared, WriteAll
    <3>2. S \subseteq accepted /\ accepted \subseteq Bookings
      BY DEF BulkCleared, Tasks
    <3> QED
      BY <3>1, <3>2, Zenon DEF Paid
  <2>3. /\ \A b \in Bookings : status'[b] # "NONE" <=> status[b] # "NONE"
        /\ \A b \in Bookings : status'[b] \in Started => status[b] \in Started
        /\ event' \in Started => event \in Started
    BY <1>5, <2>1 DEF BulkCommit, WriteAll, Present, Started, TypeInv, RowsTypeOK
  <2>4. /\ \A b \in Bookings : payment'[b] = "PAID" => payment[b] = "PAID" \/ paidAt'[b]
        /\ \A b \in Bookings : payment'[b] # "NONE" => payment[b] # "NONE" \/ b \in Present
        /\ \A b \in Bookings : deadline'[b] = "none" => deadline[b] = "none" \/ paidAt'[b]
    BY <1>5, <2>1 DEF BulkCommit, BulkDeadline, WriteAll, PaymentMethod, TypeInv,
       RowsTypeOK
  <2>5. RowsPaid' /\ Grows
    BY <2>2, <2>3, <2>4 DEF PaidInv, RowsPaid, PaidIsDated, PaymentHasRow, IsPaid, PaidGate,
       WithStatus, EventStartedIsPaid, NoDeadlineMeansPaid, Present, Paid, Grows
  <2>6. ProgressNext(t, S)
    BY <1>5 DEF BulkCommit
  <2>7. S \intersect Bookings \subseteq Paid' \intersect Present'
    BY <2>1, <2>2, <2>5 DEF Grows
  <2> HIDE DEF S
  <2> QED
    BY <2>5, <2>6, <2>7, ProgressBacked
<1>6. ASSUME NEW x \in Bookings \union {EventId}, ProgressBookingRead(t, x) PROVE PaidInv'
  <2> DEFINE rest == job[t].rest \ {x}
             j == Task("pbEvent", x, {}, rest, "NONE")
  <2>1. /\ OnlyReads
        /\ (x \in Bookings /\ Continue(t, j)) \/ ProgressNext(t, rest)
    BY <1>6 DEF ProgressBookingRead, WithStatus
  <2>2. /\ rest \intersect Bookings \subseteq Paid \intersect Present
        /\ x \in Bookings => x \in Paid \intersect Present
    BY <1>6 DEF ProgressBookingRead, At, JobBacked, Named
  <2>3. x \in Bookings => JobBacked(j, Paid, Present)
    BY <2>2 DEF JobBacked, Named, Task
  <2> HIDE DEF rest, j
  <2> QED
    BY <2>1, <2>2, <2>3, ReadsKeep, ProgressBacked, ContinueBacked
<1>7. CASE ProgressEventRead(t)
  <2> DEFINE j == Task("pbCommit", job[t].b, {}, job[t].rest, event)
  <2>1. OnlyReads /\ Continue(t, j)
    BY <1>7 DEF ProgressEventRead
  <2>2. JobBacked(j, Paid, Present)
    BY <1>7 DEF ProgressEventRead, At, JobBacked, Named, Task
  <2> HIDE DEF j
  <2> QED
    BY <2>1, <2>2, ReadsKeep, ContinueBacked
<1>8. CASE ProgressCommit(t)
  <2>1. /\ job[t].b \in Paid \intersect Present
        /\ job[t].rest \intersect Bookings \subseteq Paid \intersect Present
    BY <1>8 DEF ProgressCommit, At, NoteOK, OneBookingSteps, JobBacked, Named
  <2>2. RowsPaid' /\ Grows
    BY <1>8, <2>1, BookingsKeep DEF ProgressCommit, paymentVars, TypeInv, RowsTypeOK
  <2>3. ProgressNext(t, job[t].rest)
    BY <1>8 DEF ProgressCommit
  <2>4. job[t].rest \intersect Bookings \subseteq Paid' \intersect Present'
    BY <2>1, <2>2 DEF Grows
  <2> QED
    BY <2>2, <2>3, <2>4, ProgressBacked
<1> QED
  BY <1>1, <1>2, <1>3, <1>4, <1>5, <1>6, <1>7, <1>8

LEMMA PaymentStepsPaid ==
  ASSUME TypeInv, PaidInv, NEW t \in Threads,
         \/ CreatePaymentRow(t) \/ GatewayCreateIntent(t) \/ IntentRowWrite(t)
         \/ ProcessElectronicPayment(t) \/ GatewayCharge(t) \/ GatewayVerifyIntent(t)
         \/ PaymentFailedWrite(t) \/ MarkPaidWrite(t) \/ MarkPaidDeadline(t)
         \/ RefundPaymentWrite(t)
  PROVE  PaidInv'
<1> USE ConstantsAssumption, JobIsBacked, JobTyped
<1> DEFINE b == job[t].b
<1>1. ASSUME b \in Present
      PROVE  /\ \A pc \in {"payIntent", "payIntentRow", "payProcessing", "payCharge",
                            "payFailed"} : JobBacked(On(pc, b), Paid, Present)
             /\ \A n \in {"charge", "intent"} :
                  JobBacked(Task("markPaid", b, {}, {}, n), Paid, Present)
  BY <1>1 DEF JobBacked, Named, On, Task
<1>2. CASE CreatePaymentRow(t)
  <2>1. b \in Present
    BY <1>2 DEF CreatePaymentRow, At, NoteOK, OneBookingSteps, JobBacked, Named
  <2>2. RowsPaid' /\ Grows
    BY <1>2, <2>1, PaymentsKeep DEF CreatePaymentRow, TypeInv, RowsTypeOK
  <2>3. JobBacked(On("payIntent", b), Paid', Present')
    BY <1>1, <2>1, <2>2, BackedGrows DEF Grows
  <2>4. Finish(t) \/ Continue(t, On("payIntent", b))
    BY <1>2 DEF CreatePaymentRow
  <2> QED
    BY <2>2, <2>3, <2>4, FinishBacked, ContinueBacked
<1>3. CASE GatewayCreateIntent(t)
  <2>1. b \in Present
    BY <1>3 DEF GatewayCreateIntent, At, NoteOK, OneBookingSteps, JobBacked, Named
  <2>2. RowsPaid' /\ Grows
    BY <1>3, PaymentsKeep DEF GatewayCreateIntent, paymentVars
  <2>3. \A pc \in {"payIntentRow", "payProcessing"} : JobBacked(On(pc, b), Paid', Present')
    BY <1>1, <2>1, <2>2, BackedGrows DEF Grows
  <2> QED
    BY <1>3, <2>2, <2>3, ContinueBacked DEF GatewayCreateIntent
<1>4. CASE IntentRowWrite(t)
  <2>1. b \in Present
    BY <1>4 DEF IntentRowWrite, At, NoteOK, OneBookingSteps, JobBacked, Named
  <2>2. RowsPaid' /\ Grows
    BY <1>4, <2>1, PaymentsKeep DEF IntentRowWrite, TypeInv, RowsTypeOK
  <2> QED
    BY <1>4, <2>2, FinishBacked DEF IntentRowWrite
<1>5. CASE ProcessElectronicPayment(t)
  <2>1. b \in Present
    BY <1>5
      DEF ProcessElectronicPayment, PaymentWrite, At, NoteOK, OneBookingSteps, JobBacked, Named
  <2>2. RowsPaid' /\ Grows
    BY <1>5, <2>1, PaymentsKeep DEF ProcessElectronicPayment, PaymentWrite, TypeInv,
       RowsTypeOK
  <2>3. JobBacked(On("payCharge", b), Paid', Present')
    BY <1>1, <2>1, <2>2, BackedGrows DEF Grows
  <2> QED
    BY <1>5, <2>2, <2>3, ContinueBacked DEF ProcessElectronicPayment
<1>6. CASE GatewayCharge(t)
  <2>1. b \in Present
    BY <1>6 DEF GatewayCharge, At, NoteOK, OneBookingSteps, JobBacked, Named
  <2>2. RowsPaid' /\ Grows
    BY <1>6, PaymentsKeep DEF GatewayCharge, paymentVars
  <2>3. /\ JobBacked(Task("markPaid", b, {}, {}, "charge"), Paid', Present')
        /\ JobBacked(On("payFailed", b), Paid', Present')
    BY <1>1, <2>1, <2>2, BackedGrows DEF Grows
  <2> QED
    BY <1>6, <2>2, <2>3, ContinueBacked DEF GatewayCharge
<1>7. CASE GatewayVerifyIntent(t)
  <2>1. b \in Present
    BY <1>7 DEF GatewayVerifyIntent, At, NoteOK, OneBookingSteps, JobBacked, Named
  <2>2. /\ JobBacked(Task("markPaid", b, {}, {}, "intent"), Paid, Present)
        /\ JobBacked(On("payFailed", b), Paid, Present)
    BY <1>1, <2>1
  <2> QED
    BY <1>7, <2>2, ReadsKeep, ContinueBacked DEF GatewayVerifyIntent
<1>8. CASE PaymentFailedWrite(t) \/ RefundPaymentWrite(t)
  <2>1. b \in Present
    BY <1>8
      DEF PaymentFailedWrite, RefundPaymentWrite, PaymentWrite, At, NoteOK, OneBookingSteps, JobBacked,
       Named
  <2>2. RowsPaid' /\ Grows
    BY <1>8, <2>1, PaymentsKeep DEF PaymentFailedWrite, RefundPaymentWrite, PaymentWrite,
       TypeInv, RowsTypeOK
  <2> QED
    BY <1>8, <2>2, FinishBacked DEF PaymentFailedWrite, RefundPaymentWrite
<1>9. CASE MarkPaidWrite(t)
  <2>1. b \in Present
    BY <1>9 DEF MarkPaidWrite, At, NoteOK, OneBookingSteps, JobBacked, Named
  <2>2. RowsPaid' /\ Grows
    BY <1>9, <2>1, PaymentsKeep DEF MarkPaidWrite, TypeInv, RowsTypeOK
  <2>3. b \in Paid'
    BY <1>9, <2>1 DEF MarkPaidWrite, Paid, Present, TypeInv, RowsTypeOK
  <2>4. JobBacked(On("mpDeadline", b), Paid', Present')
    BY <2>1, <2>2, <2>3 DEF JobBacked, Named, On, Task, Grows
  <2> QED
    BY <1>9, <2>2, <2>4, ContinueBacked DEF MarkPaidWrite
<1>10. CASE MarkPaidDeadline(t)
  <2>1. b \in Paid
    BY <1>10 DEF MarkPaidDeadline, At, JobBacked
  <2>2. RowsPaid' /\ Grows
    BY <1>10, <2>1, BookingsKeep DEF MarkPaidDeadline, eventVars, paymentVars, TypeInv,
       RowsTypeOK
  <2>3. ProgressNext(t, {EventId})
    BY <1>10 DEF MarkPaidDeadline, MarkPaidProgresses
  <2> QED
    BY <2>2, <2>3, ProgressBacked
<1> QED
  BY <1>2, <1>3, <1>4, <1>5, <1>6, <1>7, <1>8, <1>9, <1>10

LEMMA CronStepsPaid ==
  ASSUME TypeInv, PaidInv, NEW t \in Threads,
         \/ \E b \in Bookings : ExpireBooking(t, b)
         \/ PastCancelUndecided(t) \/ PastCompleteRunning(t) \/ PastCompleteEvent(t)
  PROVE  PaidInv'
<1> USE ConstantsAssumption, JobIsBacked, JobTyped
<1>1. ASSUME NEW b \in Bookings, ExpireBooking(t, b) PROVE PaidInv'
  <2> DEFINE rest == job[t].rest \ {b}
             j == Task("ecCancel", EventId, {}, rest, "NONE")
  <2>1. b \in Present /\ rest \intersect Bookings \subseteq Present
    BY <1>1 DEF ExpireBooking, JobBacked, Named
  <2>2. RowsPaid' /\ Grows
    BY <1>1, <2>1, BookingsKeep DEF ExpireBooking, eventVars, paymentVars, TypeInv,
       RowsTypeOK, Started
  <2>3. JobBacked(j, Paid', Present')
    BY <2>1, <2>2 DEF JobBacked, Named, Task, Grows
  <2>4. Finish(t) \/ Continue(t, j)
    BY <1>1 DEF ExpireBooking
  <2> HIDE DEF j
  <2> QED
    BY <2>2, <2>3, <2>4, FinishBacked, ContinueBacked
<1>2. CASE PastCancelUndecided(t) \/ PastCompleteRunning(t)
  <2>1. Paid # {}
    BY <1>2 DEF PastCancelUndecided, PastCompleteRunning, PastWrite, At, JobBacked
  <2>2. WithStatus({"IN_PROGRESS"}) \subseteq Paid
    BY DEF WithStatus, PaidInv, RowsPaid, PaidGate, Started, Paid
  <2>3. RowsPaid' /\ Grows
    BY <1>2, <2>2, BookingsKeep DEF PastCancelUndecided, PastCompleteRunning, PastWrite,
       WriteAll, WithStatus, PENDING_STATUSES, Present, eventVars, paymentVars, TypeInv,
       RowsTypeOK, Started
  <2>4. /\ JobBacked(On("peComplete", EventId), Paid', Present')
        /\ JobBacked(On("peEvent", EventId), Paid', Present')
    BY <2>1, <2>3 DEF JobBacked, Named, On, Task, Grows
  <2> QED
    BY <1>2, <2>3, <2>4, ContinueBacked DEF PastCancelUndecided, PastCompleteRunning, PastWrite
<1>3. CASE PastCompleteEvent(t)
  <2>1. Paid # {}
    BY <1>3 DEF PastCompleteEvent, At, JobBacked
  <2>2. RowsPaid' /\ Grows
    BY <1>3, <2>1, BookingsKeep DEF PastCompleteEvent, bookingVars, paymentVars
  <2> QED
    BY <1>3, <2>2, FinishBacked DEF PastCompleteEvent
<1> QED
  BY <1>1, <1>2, <1>3

(* A payment that cleared is never taken back: only markPaid and the bulk    *)
(* decision write paidAt.                                                    *)
LEMMA PaidStays == TypeInv /\ [Next]_vars => Paid \subseteq Paid'
<1> SUFFICES ASSUME TypeInv, [Next]_vars, ~UNCHANGED paidAt PROVE Paid \subseteq Paid'
  BY DEF Paid
<1>1. \E t \in Threads : BulkCommit(t) \/ MarkPaidWrite(t)
  <2>1. ~Environment /\ \A t \in Threads : ~CronPass(t) /\ ~Fail(t) /\ ~Call(t)
    BY DEF Environment, CreateEvent, CustomerPaysIntent, DeadlinePasses, EventTimePasses, Call,
       AddServiceToEvent, CancelEvent, SendQuote, RejectBooking, CompleteBooking, ConfirmQuote,
       RejectQuote, CreatePayment, ConfirmPayment, MarkCashPaid, RefundPayment,
       BulkQuoteDecision, CronPass, HandleExpiredBookings, CompletePastEvents, Fail, OnlyReads,
       rowVars, paymentVars
  <2>2. PICK t \in Threads : Advance(t)
    BY <2>1 DEF Next, vars, rowVars, paymentVars
  <2>3. BulkCommit(t) \/ MarkPaidWrite(t)
    BY <2>2 DEF Advance, AddServiceCommit, CancelEventRead, CancelEventCommit, SendQuoteCommit,
       RejectBookingWrite, CompleteBookingWrite, ProviderWrite, ConfirmQuoteWrite,
       CreateIfRequired, TryProgressEventRead, TryProgressEventCommit, TryProgressEventPaid,
       RejectQuoteSiblings, RejectQuoteCommit, BulkConflict, ProgressBookingRead,
       ProgressEventRead, ProgressCommit, CreatePaymentRow, GatewayCreateIntent, IntentRowWrite,
       ProcessElectronicPayment, PaymentWrite, GatewayCharge, GatewayVerifyIntent,
       PaymentFailedWrite, MarkPaidDeadline, RefundPaymentWrite, ExpireBooking,
       PastCancelUndecided, PastCompleteRunning, PastWrite, PastCompleteEvent, OnlyReads,
       rowVars, paymentVars
  <2> QED
    BY <2>3
<1>2. ASSUME NEW t \in Threads, BulkCommit(t) PROVE Paid \subseteq Paid'
  BY <1>2 DEF BulkCommit, WriteAll, Paid
<1>3. ASSUME NEW t \in Threads, MarkPaidWrite(t) PROVE Paid \subseteq Paid'
  BY <1>3 DEF MarkPaidWrite, Paid, TypeInv, RowsTypeOK
<1> QED
  BY <1>1, <1>2, <1>3

LEMMA NextPaid == TypeInv /\ PaidInv /\ [Next]_vars => PaidInv'
<1> SUFFICES ASSUME TypeInv, PaidInv, [Next]_vars PROVE PaidInv'
  OBVIOUS
<1>1. CASE Environment
  BY <1>1, EnvironmentPaid
<1>2. ASSUME NEW t \in Threads, Call(t) PROVE PaidInv'
  BY <1>2, CallPaid
<1>3. ASSUME NEW t \in Threads, CronPass(t) PROVE PaidInv'
  BY <1>3, CronPaid
<1>4. ASSUME NEW t \in Threads, Advance(t) PROVE PaidInv'
  BY <1>4, BookingStepsPaid, ProgressStepsPaid, PaymentStepsPaid, CronStepsPaid DEF Advance
<1>5. ASSUME NEW t \in Threads, Fail(t) PROVE PaidInv'
  BY <1>5, ReadsKeep, FinishBacked DEF Fail
<1>6. CASE UNCHANGED vars
  <2>1. OnlyReads /\ job' = job
    BY <1>6 DEF vars, OnlyReads
  <2> QED
    BY <2>1, ReadsKeep DEF PaidInv, JobsBacked
<1> QED
  BY <1>1, <1>2, <1>3, <1>4, <1>5, <1>6 DEF Next

LEMMA PaidInvariant == Spec => []PaidInv
BY TypeInvariant, InitPaidInv, NextPaid, PTL DEF Spec

(* A service that runs or has been delivered was paid for: no interleaving   *)
(* of confirmQuote, bulkQuoteDecision, the payment handlers, completeBooking *)
(* and the cron jobs, and no failure between their calls, starts it without. *)
THEOREM PaymentIsAGate == Spec => []PaidGate
<1>1. PaidInv => PaidGate
  BY DEF PaidInv, RowsPaid
<1> QED
  BY <1>1, PaidInvariant, PTL

(* An event is IN_PROGRESS or COMPLETED only when a booking of it was paid:  *)
(* tryProgressEvent and progressBookingAndEvent are the only ways to start   *)
(* it, and completePastEvents takes only events that run.                    *)
THEOREM EventStartNeedsPayment == Spec => []EventStartedIsPaid
<1>1. PaidInv => EventStartedIsPaid
  BY DEF PaidInv, RowsPaid
<1> QED
  BY <1>1, PaidInvariant, PTL

(* A booking is out of reach of handleExpiredBookings only once it has been  *)
(* paid, whichever handler wrote its cancellationDeadline last.              *)
THEOREM UnpaidKeepsDeadline == Spec => []NoDeadlineMeansPaid
<1>1. PaidInv => NoDeadlineMeansPaid
  BY DEF PaidInv, RowsPaid
<1> QED
  BY <1>1, PaidInvariant, PTL

-----------------------------------------------------------------------------
(* EventBookings implements PaymentGate: every step of the handlers is a    *)
(* step of the gate, or leaves the gate as it is.  The gate lets an event   *)
(* run only after a service of it has started, so GateInv adds that much to *)
(* PaidInv: for the event, and for the pass of completePastEvents that      *)
(* found the event running.                                                 *)

Accepted == {b \in Bookings : acceptedAt[b]}

EventStartedIsAccepted == event \in Started => Accepted # {}

(* What the task j can count on when the services in accepted were started. *)
JobSettled(j, accepted) ==
  /\ j.pc \in {"peUndecided", "peComplete", "peEvent"} => accepted # {}
  /\ j.pc = "bulkCommit" => /\ j.ids \intersect j.rest = {}
                            /\ j.ids = {} => j.note = "CASH"

JobsSettled == \A t \in Threads : JobSettled(job[t], Accepted)

GateInv == EventStartedIsAccepted /\ JobsSettled

AcceptedGrows == Accepted \subseteq Accepted'

LEMMA InitGateInv == Init => GateInv
BY DEF Init, GateInv, EventStartedIsAccepted, Started, JobsSettled, JobSettled, Idle, Task

LEMMA ContinueSettled ==
  ASSUME TypeInv, GateInv, AcceptedGrows, EventStartedIsAccepted', NEW t \in Threads, NEW j,
         Continue(t, j), JobSettled(j, Accepted')
  PROVE  GateInv'
<1>1. \A u \in Threads : job'[u] = j \/ job'[u] = job[u]
  BY DEF Continue, TypeInv
<1>2. \A u \in Threads : JobSettled(job[u], Accepted')
  BY DEF GateInv, JobsSettled, JobSettled, AcceptedGrows
<1>3. JobsSettled'
  BY <1>1, <1>2 DEF JobsSettled
<1> QED
  BY <1>3 DEF GateInv

(* The gate as seen from the rows. *)
GateStep == [Gate!Next]_(Gate!vars)

LEMMA GateUnchanged ==
  ASSUME UNCHANGED <<event, acceptedAt, paidAt>> PROVE GateStep
BY DEF GateStep, Gate!vars

LEMMA GateClears ==
  ASSUME NEW S, S \subseteq Bookings, Paid' = Paid \union S, acceptedAt' = acceptedAt,
         (event \in Started)' = (event \in Started)
  PROVE  GateStep
<1>1. Gate!ClearPayments(S)
  BY DEF Gate!ClearPayments, Paid
<1> QED
  BY <1>1 DEF GateStep, Gate!Next

LEMMA GateStarts ==
  ASSUME NEW S, S # {}, S \subseteq Paid, Accepted' = Accepted \union S, paidAt' = paidAt,
         event' \in {event, "IN_PROGRESS"}
  PROVE  GateStep
<1>1. S \subseteq Bookings
  BY DEF Paid
<1>2. Gate!StartServices(S)
  BY DEF Gate!StartServices, Started, Paid, Accepted
<1> QED
  BY <1>1, <1>2 DEF GateStep, Gate!Next

LEMMA GateSwitches ==
  ASSUME UNCHANGED <<acceptedAt, paidAt>>,
         event' \in Started => Accepted # {}
  PROVE  GateStep
BY DEF GateStep, Gate!Next, Gate!SwitchEvent, Accepted

(* A task at any other step needs nothing. *)
Free == Steps \ {"peUndecided", "peComplete", "peEvent", "bulkCommit"}

LEMMA FreeSettled ==
  ASSUME NEW j, j.pc \in Free, NEW accepted PROVE JobSettled(j, accepted)
BY DEF JobSettled, Free

LEMMA IdleFree == Idle.pc \in Free
BY DEF Idle, Task, Free, Steps

(* A step that neither pays, starts nor switches anything, to a free task. *)
LEMMA QuietStep ==
  ASSUME TypeInv, GateInv, UNCHANGED <<event, acceptedAt, paidAt>>, NEW t \in Threads,
         NEW j, Continue(t, j), j.pc \in Free
  PROVE  GateInv' /\ GateStep
<1>1. AcceptedGrows /\ EventStartedIsAccepted'
  BY DEF AcceptedGrows, GateInv, EventStartedIsAccepted, Accepted
<1> QED
  BY <1>1, FreeSettled, ContinueSettled, GateUnchanged

LEMMA ReadsQuiet == OnlyReads => UNCHANGED <<event, acceptedAt, paidAt>>
BY DEF OnlyReads, rowVars, bookingVars, eventVars, paymentVars

LEMMA ProgressSettled ==
  ASSUME TypeInv, GateInv, AcceptedGrows, EventStartedIsAccepted', NEW t \in Threads, NEW S,
         ProgressNext(t, S)
  PROVE  GateInv'
<1>1. Idle.pc \in Free /\ Task("pbBooking", EventId, {}, S, "NONE").pc \in Free
  BY DEF Idle, Task, Free, Steps
<1> QED
  BY <1>1, FreeSettled, ContinueSettled DEF ProgressNext, Finish

LEMMA JobIsSettled ==
  ASSUME GateInv, NEW t \in Threads PROVE JobSettled(job[t], Accepted)
BY DEF GateInv, JobsSettled

LEMMA EnvironmentGate ==
  ASSUME GateInv, Environment PROVE GateInv' /\ GateStep
<1>1. job' = job /\ UNCHANGED <<acceptedAt, paidAt>>
  BY DEF Environment, CreateEvent, InsertBookings, CustomerPaysIntent, DeadlinePasses,
         EventTimePasses, bookingVars, paymentVars
<1>2. (event \in Started)' = (event \in Started)
  BY DEF Environment, CreateEvent, CustomerPaysIntent, DeadlinePasses, EventTimePasses,
         eventVars, Started
<1>3. GateInv'
  BY <1>1, <1>2 DEF GateInv, EventStartedIsAccepted, Accepted, JobsSettled, JobSettled
<1>4. GateStep
  BY <1>1, <1>2 DEF GateStep, Gate!vars
<1> QED
  BY <1>3, <1>4

LEMMA CallGate ==
  ASSUME TypeInv, GateInv, NEW t \in Threads, Call(t) PROVE GateInv' /\ GateStep
<1>1. OnlyReads
  BY DEF Call, AddServiceToEvent, CancelEvent, SendQuote, RejectBooking, CompleteBooking,
         ConfirmQuote, RejectQuote, CreatePayment, ConfirmPayment, MarkCashPaid,
         RefundPayment, BulkQuoteDecision
<1>2. UNCHANGED <<event, acceptedAt, paidAt>>
  BY <1>1, ReadsQuiet
<1>3. CASE AddServiceToEvent(t) \/ CancelEvent(t)
  BY <1>2, <1>3, QuietStep DEF AddServiceToEvent, CancelEvent, On, Task, Free, Steps
<1>4. ASSUME NEW b \in Bookings,
             \/ SendQuote(t, b) \/ RejectBooking(t, b) \/ CompleteBooking(t, b)
             \/ ConfirmQuote(t, b) \/ RejectQuote(t, b)
             \/ \E m \in PaymentMethod : CreatePayment(t, b, m)
             \/ ConfirmPayment(t, b) \/ MarkCashPaid(t, b) \/ RefundPayment(t, b)
      PROVE  GateInv' /\ GateStep
  <2>1. PICK pc \in Free, m \in PaymentMethod \union {"NONE", "none"} :
          Continue(t, Task(pc, b, {}, {}, m))
    BY <1>4 DEF SendQuote, RejectBooking, CompleteBooking, ConfirmQuote, RejectQuote,
       CreatePayment, ConfirmPayment, MarkCashPaid, RefundPayment, On, Free, Steps
  <2> QED
    BY <1>2, <2>1, QuietStep DEF Task
<1>5. ASSUME NEW accepted \in SUBSET Bookings, NEW rejected \in SUBSET Bookings,
             NEW m \in PaymentMethod, BulkQuoteDecision(t, accepted, rejected, m)
      PROVE  GateInv' /\ GateStep
  <2>1. JobSettled(Task("bulkCommit", EventId, accepted, rejected, m), Accepted')
    BY <1>5 DEF BulkQuoteDecision, JobSettled, Task
  <2>2. AcceptedGrows /\ EventStartedIsAccepted'
    BY <1>2 DEF AcceptedGrows, GateInv, EventStartedIsAccepted, Accepted
  <2> QED
    BY <1>2, <1>5, <2>1, <2>2, ContinueSettled, GateUnchanged DEF BulkQuoteDecision
<1> QED
  BY <1>3, <1>4, <1>5 DEF Call

LEMMA CronGate ==
  ASSUME TypeInv, GateInv, NEW t \in Threads, CronPass(t) PROVE GateInv' /\ GateStep
<1>1. UNCHANGED <<event, acceptedAt, paidAt>>
  BY ReadsQuiet DEF CronPass, HandleExpiredBookings, CompletePastEvents
<1>2. CASE HandleExpiredBookings(t)
  BY <1>1, <1>2, QuietStep DEF HandleExpiredBookings, Task, Free, Steps
<1>3. CASE CompletePastEvents(t)
  <2>1. AcceptedGrows /\ EventStartedIsAccepted' /\ Accepted' # {}
    BY <1>1, <1>3 DEF CompletePastEvents, AcceptedGrows, GateInv, EventStartedIsAccepted,
       Accepted, Started
  <2>2. JobSettled(On("peUndecided", EventId), Accepted')
    BY <2>1 DEF JobSettled, On, Task
  <2> QED
    BY <1>1, <1>3, <2>1, <2>2, ContinueSettled, GateUnchanged DEF CompletePastEvents
<1> QED
  BY <1>2, <1>3 DEF CronPass

(* The calls that neither pay, nor start a service, nor switch the event. *)
LEMMA QuietAdvance ==
  ASSUME TypeInv, GateInv, NEW t \in Threads,
         \/ \E b \in Bookings : AddServiceCommit(t, b)
         \/ CancelEventRead(t)
         \/ SendQuoteCommit(t) \/ RejectBookingWrite(t) \/ CompleteBookingWrite(t)
         \/ ConfirmQuoteWrite(t) \/ CreateIfRequired(t)
         \/ TryProgressEventRead(t) \/ \E b \in Bookings : TryProgressEventPaid(t, b)
         \/ RejectQuoteSiblings(t) \/ BulkConflict(t) \/ ProgressEventRead(t)
         \/ CreatePaymentRow(t) \/ GatewayCreateIntent(t) \/ IntentRowWrite(t)
         \/ ProcessElectronicPayment(t) \/ GatewayCharge(t) \/ GatewayVerifyIntent(t)
         \/ PaymentFailedWrite(t) \/ RefundPaymentWrite(t)
         \/ \E b \in Bookings : ExpireBooking(t, b)
  PROVE  GateInv' /\ GateStep
<1>1. UNCHANGED <<event, acceptedAt, paidAt>>
  BY ReadsQuiet DEF AddServiceCommit, InsertBookings, CancelEventRead, SendQuoteCommit,
     RejectBookingWrite, CompleteBookingWrite, ProviderWrite, ConfirmQuoteWrite,
     CreateIfRequired, TryProgressEventRead, TryProgressEventPaid, RejectQuoteSiblings,
     BulkConflict, ProgressEventRead, CreatePaymentRow, GatewayCreateIntent, IntentRowWrite,
     ProcessElectronicPayment, GatewayCharge, GatewayVerifyIntent, PaymentFailedWrite,
     RefundPaymentWrite, PaymentWrite, ExpireBooking, bookingVars, eventVars, paymentVars
<1>2. \E j : Continue(t, j) /\ j.pc \in Free
  <2>1. CASE \/ \E b \in Bookings : AddServiceCommit(t, b)
             \/ SendQuoteCommit(t) \/ RejectBookingWrite(t) \/ CompleteBookingWrite(t)
             \/ BulkConflict(t) \/ IntentRowWrite(t)
             \/ PaymentFailedWrite(t) \/ RefundPaymentWrite(t)
    BY <2>1, IdleFree DEF AddServiceCommit, SendQuoteCommit, RejectBookingWrite,
       CompleteBookingWrite, ProviderWrite, BulkConflict, IntentRowWrite,
       PaymentFailedWrite, RefundPaymentWrite, Finish
  <2>2. CASE ConfirmQuoteWrite(t) \/ CreateIfRequired(t) \/ ProcessElectronicPayment(t)
    <3>1. \E pc \in {"cqDelivery", "tpRead", "payCharge"} :
            Continue(t, On(pc, job[t].b)) \/ Continue(t, On(pc, EventId))
      BY <2>2 DEF ConfirmQuoteWrite, CreateIfRequired, ProcessElectronicPayment
    <3> QED
      BY <3>1 DEF On, Task, Free, Steps
  <2>3. CASE CreatePaymentRow(t) \/ GatewayCreateIntent(t) \/ GatewayCharge(t)
             \/ GatewayVerifyIntent(t)
    BY <2>3, IdleFree DEF CreatePaymentRow, GatewayCreateIntent, GatewayCharge,
       GatewayVerifyIntent, Finish, On, Task, Free, Steps
  <2>4. CASE CancelEventRead(t) \/ RejectQuoteSiblings(t) \/ ProgressEventRead(t)
    BY <2>4, IdleFree DEF CancelEventRead, RejectQuoteSiblings, ProgressEventRead, Finish,
       Task, Free, Steps
  <2>5. CASE TryProgressEventRead(t) \/ \E b \in Bookings : TryProgressEventPaid(t, b)
    <3>1. \/ Finish(t)
          \/ \E pc \in {"tpPaid", "tpCommit"} : \E ids, rest :
               Continue(t, Task(pc, EventId, ids, rest, "NONE"))
      BY <2>5 DEF TryProgressEventRead, TryProgressEventPaid
    <3>2. CASE Finish(t)
      BY <3>2, IdleFree DEF Finish
    <3>3. ASSUME NEW pc \in {"tpPaid", "tpCommit"}, NEW ids, NEW rest,
                 Continue(t, Task(pc, EventId, ids, rest, "NONE"))
          PROVE  \E j : Continue(t, j) /\ j.pc \in Free
      <4> DEFINE j == Task(pc, EventId, ids, rest, "NONE")
      <4>1. j.pc \in Free
        BY DEF Task, Free, Steps
      <4> HIDE DEF j
      <4> QED
        BY <3>3, <4>1 DEF j
    <3> QED
      BY <3>1, <3>2, <3>3
  <2>6. CASE \E b \in Bookings : ExpireBooking(t, b)
    BY <2>6, IdleFree DEF ExpireBooking, Finish, Task, Free, Steps
  <2> QED
    BY <2>1, <2>2, <2>3, <2>4, <2>5, <2>6
<1> QED
  BY <1>1, <1>2, QuietStep

(* The calls that move the gate, or that prepare the end of the event. *)
LEMMA LoudAdvance ==
  ASSUME TypeInv, PaidInv, GateInv, NEW t \in Threads,
         \/ CancelEventCommit(t) \/ RejectQuoteCommit(t) \/ TryProgressEventCommit(t)
         \/ BulkCommit(t) \/ \E x \in Bookings \union {EventId} : ProgressBookingRead(t, x)
         \/ ProgressCommit(t) \/ MarkPaidWrite(t) \/ MarkPaidDeadline(t)
         \/ PastCancelUndecided(t) \/ PastCompleteRunning(t) \/ PastCompleteEvent(t)
  PROVE  GateInv' /\ GateStep
<1> USE JobTyped, JobIsBacked, JobIsSettled
<1>1. CASE CancelEventCommit(t) \/ RejectQuoteCommit(t)
  <2>1. /\ UNCHANGED <<acceptedAt, paidAt>>
        /\ event' = event \/ event' \notin Started
        /\ Finish(t)
    BY <1>1
      DEF CancelEventCommit, RejectQuoteCommit, At, NoteOK, OneBookingSteps, Started, paymentVars
  <2>2. AcceptedGrows /\ EventStartedIsAccepted'
    BY <2>1 DEF AcceptedGrows, GateInv, EventStartedIsAccepted, Accepted
  <2>3. GateInv'
    BY <2>1, <2>2, IdleFree, FreeSettled, ContinueSettled DEF Finish
  <2>4. CASE event' = event
    BY <2>1, <2>4, GateUnchanged, <2>3
  <2>5. CASE event' \notin Started
    BY <2>1, <2>3, <2>5, GateSwitches
  <2> QED
    BY <2>1, <2>4, <2>5
<1>2. CASE TryProgressEventCommit(t)
  <2> DEFINE S == job[t].ids
  <2>1. S # {} /\ S \subseteq Paid
    BY <1>2 DEF TryProgressEventCommit, At, JobBacked
  <2>2. Accepted' = Accepted \union S /\ event' = "IN_PROGRESS" /\ paidAt' = paidAt
    <3>1. acceptedAt' = [b \in Bookings |-> IF b \in S THEN TRUE ELSE acceptedAt[b]]
      BY <1>2 DEF TryProgressEventCommit, WriteAll
    <3>2. S \subseteq Bookings
      BY DEF Tasks
    <3>3. Accepted' = Accepted \union S
      BY <3>1, <3>2, Zenon DEF Accepted
    <3> QED
      BY <1>2, <3>3 DEF TryProgressEventCommit, paymentVars
  <2>3. AcceptedGrows /\ EventStartedIsAccepted'
    BY <2>1, <2>2 DEF AcceptedGrows, EventStartedIsAccepted
  <2>4. GateInv'
    BY <1>2, <2>3, IdleFree, FreeSettled, ContinueSettled DEF TryProgressEventCommit, Finish
  <2> HIDE DEF S
  <2>5. GateStep
    BY <2>1, <2>2, GateStarts
  <2> QED
    BY <2>4, <2>5
<1>3. CASE BulkCommit(t)
  <2> DEFINE accepted == job[t].ids
             bank == IF job[t].note = "BANK_TRANSFER" THEN accepted ELSE {}
  <2>1. accepted \subseteq Bookings /\ bank \subseteq accepted
    BY DEF Tasks
  <2>2. Paid' = Paid \union bank /\ acceptedAt' = acceptedAt
    <3>1. paidAt' = [b \in Bookings |-> IF b \in bank THEN TRUE ELSE paidAt[b]]
      BY <1>3 DEF BulkCommit, WriteAll
    <3>2. Paid' = Paid \union bank
      BY <2>1, <3>1, Zenon DEF Paid
    <3> QED
      BY <1>3, <3>2 DEF BulkCommit
  <2>3. event' = event \/ event' \notin Started
    BY <1>3 DEF BulkCommit, Started
  <2>4. accepted # {} => event' = event
    <3> SUFFICES ASSUME NEW b \in accepted PROVE event' = event
      OBVIOUS
    <3>1. b \in Present /\ b \notin job[t].rest
      BY <1>3, <2>1 DEF BulkCommit, At, JobBacked, Named, JobSettled
    <3>2. status'[b] = "CONFIRMED"
      BY <1>3, <2>1, <3>1 DEF BulkCommit, WriteAll
    <3> QED
      BY <1>3, <3>1, <3>2 DEF BulkCommit
  <2>5. AcceptedGrows /\ EventStartedIsAccepted'
    BY <2>2, <2>3 DEF AcceptedGrows, GateInv, EventStartedIsAccepted, Accepted
  <2>6. ProgressNext(t, BulkCleared(accepted, job[t].note))
    BY <1>3 DEF BulkCommit
  <2>7. GateInv'
    BY <2>5, <2>6, ProgressSettled
  <2>8. CASE accepted # {}
    <3>1. event' = event /\ bank \subseteq Bookings
      BY <2>1, <2>4, <2>8
    <3> HIDE DEF bank
    <3>2. GateStep
      BY <2>2, <3>1, GateClears
    <3> QED
      BY <2>7, <3>2
  <2>9. CASE accepted = {}
    <3>1. paidAt' = paidAt
      BY <1>3, <2>9 DEF BulkCommit, WriteAll, TypeInv, RowsTypeOK
    <3>2. event' \in Started => Accepted # {}
      BY <2>3 DEF GateInv, EventStartedIsAccepted
    <3> QED
      BY <2>2, <2>7, <3>1, <3>2, GateSwitches
  <2> QED
    BY <2>8, <2>9
<1>4. ASSUME NEW x \in Bookings \union {EventId}, ProgressBookingRead(t, x)
      PROVE  GateInv' /\ GateStep
  <2>1. UNCHANGED <<event, acceptedAt, paidAt>>
    BY <1>4, ReadsQuiet DEF ProgressBookingRead
  <2>2. AcceptedGrows /\ EventStartedIsAccepted'
    BY <2>1 DEF AcceptedGrows, GateInv, EventStartedIsAccepted, Accepted
  <2> DEFINE rest == job[t].rest \ {x}
             j == Task("pbEvent", x, {}, rest, "NONE")
  <2>3. Continue(t, j) \/ ProgressNext(t, rest)
    BY <1>4 DEF ProgressBookingRead
  <2>4. j.pc \in Free
    BY DEF Task, Free, Steps
  <2> HIDE DEF j, rest
  <2> QED
    BY <2>1, <2>2, <2>3, <2>4, QuietStep, ProgressSettled, GateUnchanged
<1>5. CASE ProgressCommit(t)
  <2> DEFINE b == job[t].b
  <2>1. b \in Paid
    BY <1>5 DEF ProgressCommit, At, JobBacked
  <2>2. Accepted' = Accepted \union {b} /\ event' \in {event, "IN_PROGRESS"} /\ paidAt' = paidAt
    <3>1. acceptedAt' = [acceptedAt EXCEPT ![b] = TRUE]
      BY <1>5 DEF ProgressCommit
    <3>2. b \in Bookings /\ acceptedAt \in [Bookings -> BOOLEAN]
      BY <2>1 DEF Paid, TypeInv, RowsTypeOK
    <3>3. Accepted' = Accepted \union {b}
      BY <3>1, <3>2 DEF Accepted
    <3> QED
      BY <1>5, <3>3 DEF ProgressCommit, paymentVars
  <2>3. AcceptedGrows /\ EventStartedIsAccepted'
    BY <2>2 DEF AcceptedGrows, EventStartedIsAccepted, GateInv
  <2>4. ProgressNext(t, job[t].rest)
    BY <1>5 DEF ProgressCommit
  <2>5. GateInv'
    BY <2>3, <2>4, ProgressSettled
  <2> HIDE DEF b
  <2>6. GateStep
    BY <2>1, <2>2, GateStarts
  <2> QED
    BY <2>5, <2>6
<1>6. CASE MarkPaidWrite(t)
  <2> DEFINE b == job[t].b
  <2>1. b \in Bookings
    BY <1>6 DEF MarkPaidWrite, At, NoteOK, OneBookingSteps
  <2>2. Paid' = Paid \union {b} /\ UNCHANGED <<event, acceptedAt>>
    <3>1. paidAt' = [paidAt EXCEPT ![b] = TRUE] /\ paidAt \in [Bookings -> BOOLEAN]
      BY <1>6 DEF MarkPaidWrite, TypeInv, RowsTypeOK
    <3>2. Paid' = Paid \union {b}
      BY <2>1, <3>1 DEF Paid
    <3> QED
      BY <1>6, <3>2 DEF MarkPaidWrite, bookingVars, eventVars
  <2>3. AcceptedGrows /\ EventStartedIsAccepted'
    BY <2>2 DEF AcceptedGrows, GateInv, EventStartedIsAccepted, Accepted
  <2>4. JobSettled(On("mpDeadline", b), Accepted')
    BY DEF JobSettled, On, Task
  <2>5. GateInv'
    BY <1>6, <2>3, <2>4, ContinueSettled DEF MarkPaidWrite
  <2>6. acceptedAt' = acceptedAt /\ (event \in Started)' = (event \in Started)
    BY <2>2 DEF Started
  <2> DEFINE S == {b}
  <2>7. S \subseteq Bookings /\ Paid' = Paid \union S
    BY <2>1, <2>2
  <2> HIDE DEF S
  <2>8. GateStep
    BY <2>6, <2>7, GateClears
  <2> QED
    BY <2>5, <2>8
<1>7. CASE MarkPaidDeadline(t)
  <2>1. UNCHANGED <<event, acceptedAt, paidAt>> /\ ProgressNext(t, {EventId})
    BY <1>7 DEF MarkPaidDeadline, MarkPaidProgresses, eventVars, paymentVars
  <2>2. AcceptedGrows /\ EventStartedIsAccepted'
    BY <2>1 DEF AcceptedGrows, GateInv, EventStartedIsAccepted, Accepted
  <2> QED
    BY <2>1, <2>2, ProgressSettled, GateUnchanged
<1>8. CASE PastCancelUndecided(t) \/ PastCompleteRunning(t)
  <2>1. UNCHANGED <<event, acceptedAt, paidAt>> /\ Accepted # {}
    BY <1>8 DEF PastCancelUndecided, PastCompleteRunning, PastWrite, At, JobSettled, eventVars,
       paymentVars
  <2>2. AcceptedGrows /\ EventStartedIsAccepted' /\ Accepted' # {}
    BY <2>1 DEF AcceptedGrows, GateInv, EventStartedIsAccepted, Accepted
  <2>3. /\ JobSettled(On("peComplete", EventId), Accepted')
        /\ JobSettled(On("peEvent", EventId), Accepted')
    BY <2>2 DEF JobSettled, On, Task
  <2> QED
    BY <1>8, <2>1, <2>2, <2>3, ContinueSettled, GateUnchanged
       DEF PastCancelUndecided, PastCompleteRunning, PastWrite
<1>9. CASE PastCompleteEvent(t)
  <2>1. UNCHANGED <<acceptedAt, paidAt>> /\ Accepted # {} /\ Finish(t) /\ event' \in Started
    BY <1>9 DEF PastCompleteEvent, At, JobSettled, bookingVars, paymentVars, Started
  <2>2. AcceptedGrows /\ EventStartedIsAccepted'
    BY <2>1 DEF AcceptedGrows, EventStartedIsAccepted, Accepted
  <2>3. GateInv'
    BY <2>1, <2>2, IdleFree, FreeSettled, ContinueSettled DEF Finish
  <2> QED
    BY <2>1, <2>3, GateSwitches
<1> QED
  BY <1>1, <1>2, <1>3, <1>4, <1>5, <1>6, <1>7, <1>8, <1>9

LEMMA NextGate == TypeInv /\ PaidInv /\ GateInv /\ [Next]_vars => GateInv' /\ GateStep
<1> SUFFICES ASSUME TypeInv, PaidInv, GateInv, [Next]_vars PROVE GateInv' /\ GateStep
  OBVIOUS
<1>1. CASE UNCHANGED vars
  <2>1. UNCHANGED <<event, acceptedAt, paidAt, job>>
    BY <1>1 DEF vars, rowVars, bookingVars, eventVars, paymentVars
  <2>2. GateInv'
    BY <2>1 DEF GateInv, EventStartedIsAccepted, Accepted, JobsSettled, JobSettled
  <2> QED
    BY <2>1, <2>2, GateUnchanged
<1>2. CASE Environment
  BY <1>2, EnvironmentGate
<1>3. ASSUME NEW t \in Threads, Call(t) \/ CronPass(t) \/ Advance(t) \/ Fail(t)
      PROVE  GateInv' /\ GateStep
  <2>1. CASE Call(t)
    BY <2>1, CallGate
  <2>2. CASE CronPass(t)
    BY <2>2, CronGate
  <2>3. CASE Advance(t)
    BY <2>3, QuietAdvance, LoudAdvance DEF Advance
  <2>4. CASE Fail(t)
    BY <2>4, ReadsQuiet, IdleFree, QuietStep DEF Fail, Finish
  <2> QED
    BY <1>3, <2>1, <2>2, <2>3, <2>4
<1> QED
  BY <1>1, <1>2, <1>3 DEF Next

LEMMA InitGate == Init => Gate!Init
BY DEF Init, Gate!Init, Started

(* The handlers keep what PaymentGate promises the customer and the         *)
(* provider, whatever their interleaving, their failures and the number of  *)
(* bookings: a cleared payment stays cleared, a service starts only when    *)
(* its own payment has cleared, and the event is on only when one has.      *)
THEOREM ImplementsGate == Spec => ImplementsPaymentGate
<1>1. Init => GateInv
  BY InitGateInv
<1>2. TypeInv /\ PaidInv /\ GateInv /\ [Next]_vars => GateInv' /\ [Gate!Next]_(Gate!vars)
  BY NextGate DEF GateStep
<1> QED
  BY <1>1, <1>2, InitGate, TypeInvariant, PaidInvariant, PTL
     DEF Spec, ImplementsPaymentGate, Gate!Spec
=============================================================================
