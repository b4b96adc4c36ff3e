------------------------ MODULE PackageBookingsProofs ------------------------
(***************************************************************************)
(* Proofs about PackageBookings, for any package, any number of requests   *)
(* at a time and any choice of what may fail.                              *)
(*                                                                         *)
(* A step of a child is a step of EventBookings (ChildIsNext), so what was *)
(* proved of that module is used here as it stands; only the steps of the  *)
(* purchase are new.                                                       *)
(*                                                                         *)
(* What is true of the purchase is PackageInv: the types, the quotes of    *)
(* its services, which children can still wait or run when it is off, and  *)
(* what the handlers know of the payments between two calls: of the        *)
(* purchase's (PurchaseJob) and of each child's own (StartJob).            *)
(***************************************************************************)
EXTENDS PackageBookings, EventBookingsPaidProofs

(* The steps of the handlers of a purchase. *)
PackageSteps ==
  {"paCommit", "prCommit", "pcCommit", "ppIntent", "ppIntentRow", "ppMock", "ppCash", "pkCash",
   "pkVerify", "pkCard", "pyVerify", "pyPaid", "pkFailed", "pkRefund", "pkProgress", "tgRead",
   "tgCommit", "pdCommit"}

(* Those that write PAID for a card the gateway has vouched for. *)
CardSteps == {"pkCard", "pyPaid"}

Bills ==
  [status : PaymentStatus \union {"NONE"}, method : PaymentMethod \union {"NONE"},
   ref : Intents \union {"none", "mock"}, paidAt : BOOLEAN]

PackageRowsTypeOK ==
  /\ purchase \in PurchaseStatus \union {"NONE"}
  /\ pendingExpiresAt \in {"none", "future", "passed"}
  /\ paymentExpiresAt \in {"none", "future", "passed"}
  /\ bill \in Bills
  /\ intents \in [Intents -> {"none", "created", "open", "succeeded"}]
  /\ received \subseteq {"cash", "card"}
  /\ assumed \in BOOLEAN
  /\ overrun \subseteq Bookings
  /\ pass \in [PackageCrons -> BOOLEAN]

(* The handlers that write an intent have one. *)
PackageNote(j) == j.pc \in {"ppIntentRow"} \union CardSteps => j.note \in Intents

PackageTypeInv ==
  /\ TypeInv
  /\ PackageRowsTypeOK
  /\ \A t \in Threads : PackageNote(job[t])

-----------------------------------------------------------------------------
(* The steps.                                                               *)

(* A step of a child: EventBookings without the creation of an event. *)
ChildNext ==
  /\ \/ \E t \in Threads : Call(t) \/ CronPass(t) \/ Advance(t) \/ Fail(t)
     \/ \E b \in Bookings : CustomerPaysIntent(b) \/ DeadlinePasses(b)
     \/ EventTimePasses
  /\ UNCHANGED packageVars

(* A step of a handler of the purchase, but for the tail of markPaid. *)
PackageStep(t) ==
  PackageCall(t) \/ (PackageAdvance(t) /\ ~ChildPaidDeadline(t))

(* A step of a handler of the purchase that writes no row. *)
PackageReads(t) ==
  \/ PackageCall(t) \/ PackageVerifyIntent(t) \/ PurchaseVerifyIntent(t)
  \/ TryProgressPackageRead(t)

LEMMA CallUntouched ==
  ASSUME NEW t, PackageReads(t)
  PROVE  UNCHANGED <<rowVars, packageVars>>
BY DEF PackageReads, PackageCall, AcceptPackageBooking, RejectPackageBooking,
   CancelPackageBooking, PayPackageBooking, ConfirmPackageCashPayment,
   ConfirmPackageCardPayment, ConfirmPurchasePayment, CompletePackageBooking,
   RefundPackagePayment, Request, PackageVerifyIntent, PurchaseVerifyIntent, VerifyIntent,
   TryProgressPackageRead

(* A step of such a handler that works on the payment or at the gateway.     *)
MovesBill(t) ==
  \/ PackageCreateIntent(t) \/ PackageIntentRow(t) \/ PackageMockPaid(t)
  \/ PackageCashChosen(t) \/ PackageCashPaid(t) \/ PackageCardPaid(t)
  \/ PurchaseMarkPaid(t) \/ PackageCardFailed(t) \/ PackageRefunded(t)

LEMMA OnlyTheBill ==
  ASSUME NEW t, MovesBill(t)
  PROVE  UNCHANGED <<rowVars, purchaseVars, overrun, pass>>
BY DEF MovesBill, PackageCreateIntent, PackageIntentRow, PackageMockPaid, PackageCashChosen,
   PackageCashPaid, PackageCardPaid, PurchaseMarkPaid, PackageCardFailed, PackageRefunded,
   CardWrite, BillWrite

LEMMA ChildIsNext == ChildNext => [Next]_vars
BY DEF ChildNext, Next, Environment

LEMMA PackageNextCases ==
  ASSUME PackageNext
  PROVE  \/ BookPackage \/ ChildNext
         \/ \E t \in Threads : PackageStep(t) \/ ChildPaidDeadline(t)
         \/ \E i \in Intents : CustomerPaysPackage(i)
         \/ \E c \in PackageCrons : Pass(c)
         \/ CompleteFinished \/ ExpirePending \/ ExpireUnpaid
         \/ PackageTimePasses
<1>1. ASSUME NEW t \in Threads, Receive(t) PROVE ChildNext \/ PackageStep(t)
  BY <1>1 DEF Receive, ChildNext, PackageStep
<1>2. ASSUME ChildStep \/ EventNears PROVE ChildNext
  BY <1>2, PackageConstantsAssumption DEF ChildStep, EventNears, ChildNext, Threads, Expirable,
     WithStatus
<1>3. ASSUME NEW t \in Threads, ChildAdvance(t) PROVE ChildNext
  BY <1>3 DEF ChildAdvance, ChildNext
<1>4. ASSUME NEW t \in Threads, PackageAdvance(t) PROVE PackageStep(t) \/ ChildPaidDeadline(t)
  BY <1>4 DEF PackageStep
<1> QED
  BY <1>1, <1>2, <1>3, <1>4 DEF PackageNext, Run

(* What a handler of the purchase has checked when it goes on to its next   *)
(* call: j is its new task.                                                 *)
Errand(t, j) ==
  /\ TaskOK(j) /\ PackageNote(j)
  /\ j = Idle \/ j.pc \in PackageSteps
  /\ j.b = EventId /\ j.rest = {} /\ j.ids \subseteq ToAdvance
  /\ j.pc = "tgCommit" => j.ids # {} /\ purchase \in {"CONFIRMED", "PENDING_PAYMENT"}
  /\ j.pc \in PackageSteps \ {"tgRead", "tgCommit"} =>
       \/ purchase # "NONE" \/ bill.status # "NONE"
       \/ job[t].pc \in PackageSteps \ {"tgRead"}
  /\ j.pc = "pdCommit" => purchase = "IN_PROGRESS"
  /\ j.pc \in CardSteps => PackageIntentSucceeded(j.note)
  /\ j.pc = "pkProgress" =>
       PackageMockPaid(t) \/ PackageCashPaid(t) \/ PackageCardPaid(t)

SomeErrand(t) == \E j : Continue(t, j) /\ Errand(t, j)

LEMMA PackageErrands ==
  ASSUME PackageTypeInv, NEW t \in Threads, PackageStep(t) PROVE SomeErrand(t)
<1>1. ASSUME Finish(t) PROVE SomeErrand(t)
  <2>1. Errand(t, Idle)
    BY DEF Errand, Idle, Task, TaskOK, NoteOK, OneBookingSteps, PackageNote, PackageSteps, CardSteps
  <2> QED
    BY <1>1, <2>1 DEF Finish, SomeErrand
<1>2. ASSUME NEW pc \in PackageSteps \ {"tgCommit"}, NEW note, NEW ids, ids = {},
             Continue(t, Task(pc, EventId, ids, ids, note)),
             pc \in {"ppIntentRow"} \union CardSteps => note \in Intents,
             \/ purchase # "NONE" \/ bill.status # "NONE"
             \/ job[t].pc \in PackageSteps \ {"tgRead"},
             pc = "pdCommit" => purchase = "IN_PROGRESS",
             pc \in CardSteps => PackageIntentSucceeded(note),
             pc = "pkProgress" => PackageMockPaid(t) \/ PackageCashPaid(t) \/ PackageCardPaid(t)
      PROVE  SomeErrand(t)
  <2> DEFINE j == Task(pc, EventId, ids, ids, note)
  <2>1. j.pc = pc /\ j.b = EventId /\ j.ids = {} /\ j.rest = {} /\ j.note = note
    BY <1>2 DEF Task
  <2> HIDE DEF j
  <2>2. TaskOK(j)
    BY <2>1 DEF TaskOK, NoteOK, OneBookingSteps, PackageSteps
  <2>3. Errand(t, j)
    BY <1>2, <2>1, <2>2 DEF Errand, PackageNote
  <2> QED
    BY <1>2, <2>3 DEF j, SomeErrand
<1>3. CASE PackageCall(t)
  <2>1. CASE AcceptPackageBooking(t) \/ RejectPackageBooking(t) \/ CancelPackageBooking(t)
    BY <1>2, <2>1 DEF AcceptPackageBooking, RejectPackageBooking, CancelPackageBooking, Request,
       PackageSteps, CardSteps
  <2>2. ASSUME NEW m \in PaymentMethod, PayPackageBooking(t, m) PROVE SomeErrand(t)
    BY <1>2, <2>2 DEF PayPackageBooking, Request, PackageSteps, CardSteps
  <2>3. CASE ConfirmPackageCashPayment(t) \/ CompletePackageBooking(t)
    BY <1>2, <2>3 DEF ConfirmPackageCashPayment, CompletePackageBooking, Request, PackageSteps,
       CardSteps
  <2>4. CASE \/ ConfirmPackageCardPayment(t) \/ ConfirmPurchasePayment(t)
             \/ RefundPackagePayment(t)
    BY <1>2, <2>4 DEF ConfirmPackageCardPayment, ConfirmPurchasePayment, RefundPackagePayment,
       Request, PackageSteps, CardSteps
  <2> QED
    BY <1>3, <2>1, <2>2, <2>3, <2>4 DEF PackageCall
<1>4. CASE \/ AcceptCommit(t) \/ RejectCommit(t) \/ CancelPackageCommit(t)
           \/ PackageIntentRow(t) \/ PackageCashChosen(t) \/ PurchaseMarkPaid(t)
           \/ PackageCardFailed(t) \/ PackageRefunded(t) \/ ProgressPackageToInProgress(t)
           \/ TryProgressPackageCommit(t) \/ CompletePackageCommit(t)
  BY <1>1, <1>4 DEF AcceptCommit, RejectCommit, CancelPackageCommit, PackageIntentRow,
     PackageCashChosen, CashChosenWaits, PurchaseMarkPaid, PackageCardFailed, PackageRefunded,
     ProgressPackageToInProgress, TryProgressPackageCommit, CompletePackageCommit
<1>5. CASE PackageCreateIntent(t)
  <2>1. job[t].pc \in PackageSteps \ {"tgRead"}
    BY <1>5 DEF PackageCreateIntent, At, PackageSteps
  <2>2. \/ \E i \in Intents : Continue(t, Task("ppIntentRow", EventId, {}, {}, i))
        \/ Continue(t, Task("ppMock", EventId, {}, {}, "NONE"))
    BY <1>5 DEF PackageCreateIntent, On
  <2> QED
    BY <1>2, <2>1, <2>2 DEF PackageSteps, CardSteps
<1>6. CASE PackageMockPaid(t) \/ PackageCashPaid(t) \/ PackageCardPaid(t)
  <2>1. job[t].pc \in PackageSteps \ {"tgRead"}
    BY <1>6 DEF PackageMockPaid, PackageCashPaid, PackageCardPaid, CardWrite, BillWrite, At,
       PackageSteps
  <2>2. Continue(t, Task("pkProgress", EventId, {}, {}, "NONE"))
    BY <1>6 DEF PackageMockPaid, PackageCashPaid, PackageCardPaid, On
  <2> QED
    BY <1>2, <1>6, <2>1, <2>2 DEF PackageSteps, CardSteps
<1>7. CASE PackageVerifyIntent(t) \/ PurchaseVerifyIntent(t)
  <2>1. job[t].pc \in PackageSteps \ {"tgRead"}
    BY <1>7 DEF PackageVerifyIntent, PurchaseVerifyIntent, VerifyIntent, At, PackageSteps
  <2> DEFINE note == job[t].note
  <2>2. \/ /\ PackageIntentSucceeded(note)
           /\ \E pc \in CardSteps : Continue(t, Task(pc, EventId, {}, {}, note))
        \/ Continue(t, Task("pkFailed", EventId, {}, {}, "NONE"))
    BY <1>7 DEF PackageVerifyIntent, PurchaseVerifyIntent, VerifyIntent, On, CardSteps
  <2>3. PackageIntentSucceeded(note) => note \in Intents
    BY DEF PackageIntentSucceeded
  <2> HIDE DEF note
  <2> QED
    BY <1>2, <2>1, <2>2, <2>3 DEF PackageSteps, CardSteps
<1>8. CASE TryProgressPackageRead(t)
  <2> DEFINE j == Task("tgCommit", EventId, ToAdvance, {}, event)
  <2>1. CASE Finish(t)
    BY <1>1, <2>1
  <2>2. CASE /\ purchase \in {"CONFIRMED", "PENDING_PAYMENT"} /\ ToAdvance # {}
             /\ Continue(t, j)
    <3>1. /\ j.pc = "tgCommit" /\ j.b = EventId /\ j.ids = ToAdvance /\ j.rest = {}
          /\ ToAdvance \subseteq Bookings
      BY DEF Task, ToAdvance, WithStatus
    <3> HIDE DEF j
    <3>2. TaskOK(j)
      BY <3>1 DEF TaskOK, NoteOK, OneBookingSteps
    <3>3. Errand(t, j)
      BY <2>2, <3>1, <3>2 DEF Errand, PackageNote, PackageSteps, CardSteps
    <3> QED
      BY <2>2, <3>3 DEF j, SomeErrand
  <2> QED
    BY <1>8, <2>1, <2>2 DEF TryProgressPackageRead
<1> QED
  BY <1>3, <1>4, <1>5, <1>6, <1>7, <1>8 DEF PackageStep, PackageAdvance

-----------------------------------------------------------------------------
(* Types.                                                                   *)

LEMMA BillTyped ==
  ASSUME NEW s \in PaymentStatus \union {"NONE"}, NEW m \in PaymentMethod \union {"NONE"},
         NEW ref \in Intents \union {"none", "mock"}, NEW paid \in BOOLEAN
  PROVE  Bill(s, m, ref, paid) \in Bills
BY DEF Bill, Bills

LEMMA BillFields ==
  ASSUME NEW b \in Bills
  PROVE  /\ b.status \in PaymentStatus \union {"NONE"} /\ b.method \in PaymentMethod \union {"NONE"}
         /\ b.ref \in Intents \union {"none", "mock"} /\ b.paidAt \in BOOLEAN
BY DEF Bills

LEMMA BillExcept ==
  ASSUME NEW b \in Bills, NEW s \in PaymentStatus, NEW r \in Intents
  PROVE  /\ [b EXCEPT !.status = s] \in Bills
         /\ [b EXCEPT !.status = s, !.method = "CASH"] \in Bills
         /\ [b EXCEPT !.status = s, !.paidAt = TRUE] \in Bills
         /\ [b EXCEPT !.status = s, !.paidAt = TRUE, !.ref = r] \in Bills
<1>1. [b EXCEPT !.status = s] \in Bills
  BY DEF Bills
<1>2. [b EXCEPT !.status = s, !.method = "CASH"] \in Bills
  BY DEF Bills, PaymentMethod
<1>3. [b EXCEPT !.status = s, !.paidAt = TRUE] \in Bills
  BY DEF Bills
<1>4. [b EXCEPT !.status = s, !.paidAt = TRUE, !.ref = r] \in Bills
  BY DEF Bills
<1> QED
  BY <1>1, <1>2, <1>3, <1>4

(* The steps of the purchase write well typed rows. *)
LEMMA PackageRowsTyped ==
  ASSUME PackageTypeInv,
         \/ BookPackage
         \/ \E t \in Threads : PackageStep(t) \/ ChildPaidDeadline(t)
         \/ \E i \in Intents : CustomerPaysPackage(i)
         \/ \E c \in PackageCrons : Pass(c)
         \/ CompleteFinished \/ ExpirePending \/ ExpireUnpaid
         \/ PackageTimePasses
  PROVE  RowsTypeOK' /\ PackageRowsTypeOK'
<1> USE DEF PackageTypeInv
<1>1. ASSUME UNCHANGED rowVars PROVE RowsTypeOK'
  BY <1>1, ReadsTyped DEF OnlyReads
<1>2. ASSUME UNCHANGED packageVars PROVE PackageRowsTypeOK'
  BY <1>2 DEF packageVars, purchaseVars, billVars, PackageRowsTypeOK
<1>3. ASSUME bill' \in Bills, UNCHANGED <<purchaseVars, intents, overrun, pass>>,
             received' \subseteq received \union {"cash", "card"}, assumed' \in BOOLEAN
      PROVE  PackageRowsTypeOK'
  BY <1>3 DEF purchaseVars, PackageRowsTypeOK
<1>4. ASSUME ChildrenKeepTheRest, UNCHANGED <<acceptedAt, eventVars>>,
             \E S : \/ status' = WriteAll(status, S, "CONFIRMED")
                    \/ status' = WriteAll(status, S, "CANCELLED")
      PROVE  RowsTypeOK'
  BY <1>4 DEF ChildrenKeepTheRest, WriteAll, eventVars, paymentVars, gatewayVars, RowsTypeOK,
     TypeInv, BookingStatus
<1>5. CASE BookPackage
  <2>1. RowsTypeOK'
    BY <1>5 DEF BookPackage, InsertBookings, WriteAll, RowsTypeOK, TypeInv, BookingStatus,
       EventStatus, paymentVars, gatewayVars
  <2>2. PackageRowsTypeOK'
    BY <1>5 DEF BookPackage, PackageRowsTypeOK, PurchaseStatus, billVars
  <2> QED
    BY <2>1, <2>2
<1>6. ASSUME NEW t \in Threads, PackageReads(t)
      PROVE  RowsTypeOK' /\ PackageRowsTypeOK'
  <2>1. UNCHANGED <<rowVars, packageVars>>
    BY <1>6, CallUntouched
  <2> QED
    BY <1>1, <1>2, <2>1
<1>7. ASSUME NEW t \in Threads, AcceptCommit(t) PROVE RowsTypeOK' /\ PackageRowsTypeOK'
  <2>1. CASE AcceptConflicts
    BY <1>1, <1>2, <1>7, <2>1 DEF AcceptCommit
  <2>2. CASE ~AcceptConflicts
    <3>1. RowsTypeOK'
      BY <1>4, <1>7, <2>2 DEF AcceptCommit, Settle
    <3>2. bill' \in Bills
      BY <1>7, <2>2, BillTyped DEF AcceptCommit, PaymentStatus, PaymentMethod
    <3>3. PackageRowsTypeOK'
      BY <1>7, <2>2, <3>2 DEF AcceptCommit, Settle, PackageRowsTypeOK, PurchaseStatus
    <3> QED
      BY <3>1, <3>3
  <2> QED
    BY <2>1, <2>2
<1>8. ASSUME NEW t \in Threads, RejectCommit(t) \/ CancelPackageCommit(t)
      PROVE  RowsTypeOK' /\ PackageRowsTypeOK'
  <2>1. RowsTypeOK'
    BY <1>4, <1>8 DEF RejectCommit, CancelPackageCommit, Settle
  <2>2. bill' \in Bills
    BY <1>8 DEF RejectCommit, CancelPackageCommit, billVars, PackageRowsTypeOK, Bills,
       PaymentStatus
  <2>3. PackageRowsTypeOK'
    BY <1>8, <2>2 DEF RejectCommit, CancelPackageCommit, Settle, billVars, PackageRowsTypeOK,
       PurchaseStatus, LeftRunning, WithStatus
  <2> QED
    BY <2>1, <2>3
<1>9. ASSUME NEW t \in Threads, PackageCreateIntent(t)
      PROVE  RowsTypeOK' /\ PackageRowsTypeOK'
  <2>1. RowsTypeOK'
    BY <1>1, <1>9 DEF PackageCreateIntent
  <2>2. PackageRowsTypeOK'
    BY <1>9 DEF PackageCreateIntent, PackageRowsTypeOK, purchaseVars
  <2> QED
    BY <2>1, <2>2
<1>10. ASSUME NEW t \in Threads, PackageIntentRow(t)
       PROVE  RowsTypeOK' /\ PackageRowsTypeOK'
  <2>1. job[t].note \in Intents
    BY <1>10 DEF PackageIntentRow, At, PackageNote
  <2>2. RowsTypeOK'
    BY <1>1, <1>10 DEF PackageIntentRow
  <2>3. bill' \in Bills
    BY <1>10, <2>1, BillTyped, BillFields DEF PackageIntentRow, PackageRowsTypeOK,
       PaymentStatus, PaymentMethod
  <2>4. PackageRowsTypeOK'
    <3>1. /\ intents' = [intents EXCEPT ![job[t].note] = "open"]
          /\ UNCHANGED <<purchase, pendingExpiresAt, paymentExpiresAt, received, assumed, overrun, pass>>
      BY <1>10 DEF PackageIntentRow, purchaseVars
    <3>2. intents' \in [Intents -> {"none", "created", "open", "succeeded"}]
      BY <2>1, <3>1 DEF PackageRowsTypeOK
    <3> QED
      BY <2>3, <3>1, <3>2 DEF PackageRowsTypeOK
  <2> QED
    BY <2>2, <2>4
<1>11. ASSUME NEW t \in Threads,
              \/ PackageMockPaid(t) \/ PackageCashChosen(t) \/ PackageCashPaid(t)
              \/ PackageCardPaid(t) \/ PurchaseMarkPaid(t) \/ PackageCardFailed(t)
              \/ PackageRefunded(t)
       PROVE  RowsTypeOK' /\ PackageRowsTypeOK'
  <2>1. RowsTypeOK' /\ UNCHANGED <<purchaseVars, intents, overrun, pass>>
    BY <1>1, <1>11 DEF PackageMockPaid, PackageCashChosen, PackageCashPaid, PackageCardPaid,
       PurchaseMarkPaid, PackageCardFailed, PackageRefunded, CardWrite, BillWrite
  <2>2. PackageCardPaid(t) \/ PurchaseMarkPaid(t) => job[t].note \in Intents
    BY DEF PackageCardPaid, PurchaseMarkPaid, CardWrite, BillWrite, At, PackageNote, CardSteps
  <2>3. bill' \in Bills
    <3>1. bill \in Bills /\ {"PAID", "PROCESSING", "FAILED", "REFUNDED"} \subseteq PaymentStatus
      BY DEF PackageRowsTypeOK, PaymentStatus
    <3>2. CASE PackageMockPaid(t)
      BY <3>1, <3>2, BillTyped DEF PackageMockPaid, BillWrite, PaymentMethod
    <3>3. CASE PackageCardPaid(t) \/ PurchaseMarkPaid(t)
      <4> DEFINE note == job[t].note
      <4>1. note \in Intents
        BY <2>2, <3>3
      <4>2. bill' = [bill EXCEPT !.status = "PAID", !.paidAt = TRUE, !.ref = note]
        BY <3>3 DEF PackageCardPaid, PurchaseMarkPaid, CardWrite, BillWrite
      <4> HIDE DEF note
      <4> QED
        BY <3>1, <4>1, <4>2, BillExcept
    <3>4. CASE \/ PackageCashChosen(t) \/ PackageCashPaid(t) \/ PackageCardFailed(t)
               \/ PackageRefunded(t)
      <4>1. ASSUME NEW s \in PaymentStatus
            PROVE  /\ [bill EXCEPT !.status = s] \in Bills
                   /\ [bill EXCEPT !.status = s, !.method = "CASH"] \in Bills
                   /\ [bill EXCEPT !.status = s, !.paidAt = TRUE] \in Bills
        BY <3>1 DEF Bills, PaymentMethod
      <4> QED
        BY <3>1, <3>4, <4>1 DEF PackageCashChosen, PackageCashPaid, PackageCardFailed,
           PackageRefunded, BillWrite
    <3> QED
      BY <1>11, <3>2, <3>3, <3>4
  <2>4. received' \subseteq received \union {"cash", "card"} /\ assumed' \in BOOLEAN
    BY <1>11 DEF PackageMockPaid, PackageCashChosen, PackageCashPaid, PackageCardPaid,
       PurchaseMarkPaid, PackageCardFailed, PackageRefunded, CardWrite, PackageRowsTypeOK
  <2> QED
    BY <1>3, <2>1, <2>3, <2>4
<1>12. ASSUME NEW t \in Threads, ProgressPackageToInProgress(t) \/ TryProgressPackageCommit(t)
       PROVE  RowsTypeOK' /\ PackageRowsTypeOK'
  <2>1. event' \in {event, "IN_PROGRESS"} /\ eventTime' = eventTime
    BY <1>12 DEF ProgressPackageToInProgress, TryProgressPackageCommit
  <2>2. /\ purchase' = "IN_PROGRESS" /\ ChildrenKeepTheRest
        /\ UNCHANGED <<pendingExpiresAt, paymentExpiresAt, billVars, overrun, pass>>
    BY <1>12 DEF ProgressPackageToInProgress, TryProgressPackageCommit
  <2>3. PICK S : Advanced(S)
    BY <1>12 DEF ProgressPackageToInProgress, TryProgressPackageCommit
  <2>4. RowsTypeOK'
    BY <2>1, <2>2, <2>3 DEF Advanced, ChildrenKeepTheRest, WriteAll, paymentVars, gatewayVars,
       RowsTypeOK, TypeInv, BookingStatus, EventStatus
  <2>5. PackageRowsTypeOK'
    BY <2>2 DEF billVars, PackageRowsTypeOK, PurchaseStatus
  <2> QED
    BY <2>4, <2>5
<1>13. ASSUME Complete, pass' \in [PackageCrons -> BOOLEAN]
       PROVE  RowsTypeOK' /\ PackageRowsTypeOK'
  <2>1. RowsTypeOK'
    BY <1>13 DEF Complete, Settle, ChildrenKeepTheRest, WriteAll, paymentVars, gatewayVars,
       RowsTypeOK, TypeInv, BookingStatus, EventStatus
  <2>2. PackageRowsTypeOK'
    BY <1>13 DEF Complete, Settle, billVars, PackageRowsTypeOK, PurchaseStatus
  <2> QED
    BY <2>1, <2>2
<1>14. ASSUME NEW t \in Threads, CompletePackageCommit(t) PROVE RowsTypeOK' /\ PackageRowsTypeOK'
  BY <1>13, <1>14 DEF CompletePackageCommit, PackageRowsTypeOK
<1>15. CASE CompleteFinished
  BY <1>13, <1>15 DEF CompleteFinished, PassDone, PackageRowsTypeOK
<1>16. CASE ExpirePending \/ ExpireUnpaid
  <2>1. RowsTypeOK'
    BY <1>4, <1>16 DEF ExpirePending, ExpireUnpaid, Settle
  <2>2. bill' \in Bills /\ pass' \in [PackageCrons -> BOOLEAN]
    BY <1>16 DEF ExpirePending, ExpireUnpaid, PassDone, UnpaidBill, billVars, PackageRowsTypeOK,
       Bills, PaymentStatus
  <2>3. PackageRowsTypeOK'
    BY <1>16, <2>2 DEF ExpirePending, ExpireUnpaid, Settle, billVars, PackageRowsTypeOK,
       PurchaseStatus, LeftRunning, WithStatus
  <2> QED
    BY <2>1, <2>3
<1>17. ASSUME NEW t \in Threads, ChildPaidDeadline(t) PROVE RowsTypeOK' /\ PackageRowsTypeOK'
  <2>1. RowsTypeOK'
    BY <1>17 DEF ChildPaidDeadline, RowsTypeOK, TypeInv, eventVars, paymentVars, gatewayVars
  <2> QED
    BY <1>2, <1>17, <2>1 DEF ChildPaidDeadline
<1>18. ASSUME NEW i \in Intents, CustomerPaysPackage(i) PROVE RowsTypeOK' /\ PackageRowsTypeOK'
  <2>1. RowsTypeOK'
    BY <1>1, <1>18 DEF CustomerPaysPackage, vars
  <2>2. PackageRowsTypeOK'
    BY <1>18 DEF CustomerPaysPackage, purchaseVars, PackageRowsTypeOK
  <2> QED
    BY <2>1, <2>2
<1>19. ASSUME NEW c \in PackageCrons, Pass(c) PROVE RowsTypeOK' /\ PackageRowsTypeOK'
  <2>1. RowsTypeOK'
    BY <1>1, <1>19 DEF Pass, vars
  <2>2. PackageRowsTypeOK'
    BY <1>19 DEF Pass, purchaseVars, billVars, PackageRowsTypeOK
  <2> QED
    BY <2>1, <2>2
<1>20. CASE PackageTimePasses
  <2>1. RowsTypeOK'
    BY <1>1, <1>20 DEF PackageTimePasses, vars
  <2>2. PackageRowsTypeOK'
    BY <1>20 DEF PackageTimePasses, billVars, PackageRowsTypeOK
  <2> QED
    BY <2>1, <2>2
<1> QED
  BY <1>5, <1>6, <1>7, <1>8, <1>9, <1>10, <1>11, <1>12, <1>14, <1>15, <1>16, <1>17, <1>18,
     <1>19, <1>20 DEF PackageStep, PackageAdvance, PackageReads

(* A thread goes on to a task of one of the two kinds: everything that holds *)
(* of the other threads stays true of them.                                  *)
LEMMA PackageTypeStep ==
  ASSUME PackageTypeInv, PackageNext
  PROVE  /\ PackageTypeInv'
         /\ \/ ChildNext /\ \A u \in Threads : job'[u] = job[u] \/ job'[u] \in Tasks
            \/ \E t \in Threads : /\ PackageStep(t)
                                  /\ \E j : /\ Errand(t, j)
                                            /\ \A u \in Threads : job'[u] = IF u = t THEN j ELSE job[u]
            \/ \E t \in Threads : /\ ChildPaidDeadline(t)
                                  /\ \A u \in Threads : job'[u] = job[u] \/ job'[u] = On("tgRead", EventId)
            \/ /\ job' = job
               /\ \/ BookPackage \/ CompleteFinished \/ ExpirePending \/ ExpireUnpaid
                  \/ PackageTimePasses
                  \/ \E i \in Intents : CustomerPaysPackage(i)
                  \/ \E c \in PackageCrons : Pass(c)
<1> USE DEF PackageTypeInv
<1>1. CASE ChildNext
  <2>1. TypedStep
    BY <1>1, ChildIsNext, NextTyped
  <2>2. PackageRowsTypeOK'
    BY <1>1 DEF ChildNext, packageVars, purchaseVars, billVars, PackageRowsTypeOK
  <2>3. \A u \in Threads : job'[u] = job[u] \/ job'[u] \in Tasks
    BY <2>1 DEF TypedStep
  <2>4. \A u \in Threads : PackageNote(job'[u])
    BY <2>3 DEF PackageNote, CardSteps, Tasks, Steps
  <2> QED
    BY <1>1, <2>1, <2>2, <2>3, <2>4 DEF TypedStep, PackageNote
<1>2. ASSUME NEW t \in Threads, NEW j, Continue(t, j), TaskOK(j), PackageNote(j),
             RowsTypeOK', PackageRowsTypeOK'
      PROVE  PackageTypeInv' /\ \A u \in Threads : job'[u] = IF u = t THEN j ELSE job[u]
  <2>1. DOMAIN job' = Threads /\ \A u \in Threads : job'[u] = IF u = t THEN j ELSE job[u]
    BY <1>2 DEF Continue, TypeInv
  <2>2. \A u \in Threads : TaskOK(job'[u]) /\ PackageNote(job'[u])
    BY <1>2, <2>1 DEF TypeInv
  <2> QED
    BY <1>2, <2>1, <2>2 DEF TypeInv, TaskOK, NoteOK, PackageNote
<1>3. ASSUME NEW t \in Threads, PackageStep(t)
      PROVE  /\ PackageTypeInv'
             /\ \E j : Errand(t, j) /\ \A u \in Threads : job'[u] = IF u = t THEN j ELSE job[u]
  <2>1. PICK j : Continue(t, j) /\ Errand(t, j)
    BY <1>3, PackageErrands DEF SomeErrand
  <2>2. TaskOK(j) /\ PackageNote(j)
    BY <2>1 DEF Errand
  <2>3. RowsTypeOK' /\ PackageRowsTypeOK'
    BY <1>3, PackageRowsTyped
  <2> QED
    BY <1>2, <2>1, <2>2, <2>3
<1>4. ASSUME NEW t \in Threads, ChildPaidDeadline(t)
      PROVE  /\ PackageTypeInv'
             /\ \A u \in Threads : job'[u] = job[u] \/ job'[u] = On("tgRead", EventId)
  <2> DEFINE j == On("tgRead", EventId)
  <2>1. TaskOK(j) /\ PackageNote(j)
    BY DEF On, Task, TaskOK, NoteOK, OneBookingSteps, PackageNote, CardSteps
  <2>2. Continue(t, j)
    BY <1>4 DEF ChildPaidDeadline
  <2>3. RowsTypeOK' /\ PackageRowsTypeOK'
    BY <1>4, PackageRowsTyped
  <2> HIDE DEF j
  <2>4. PackageTypeInv' /\ \A u \in Threads : job'[u] = IF u = t THEN j ELSE job[u]
    BY <1>2, <2>1, <2>2, <2>3
  <2> QED
    BY <2>4 DEF j
<1>5. CASE \/ BookPackage \/ CompleteFinished \/ ExpirePending \/ ExpireUnpaid
           \/ PackageTimePasses
           \/ \E i \in Intents : CustomerPaysPackage(i)
           \/ \E c \in PackageCrons : Pass(c)
  <2>1. job' = job
    BY <1>5 DEF BookPackage, CompleteFinished, ExpirePending, ExpireUnpaid, PassDone,
       PackageTimePasses, CustomerPaysPackage, Pass, vars
  <2>2. RowsTypeOK' /\ PackageRowsTypeOK'
    BY <1>5, PackageRowsTyped
  <2>3. PackageTypeInv'
    BY <2>1, <2>2 DEF TypeInv, TaskOK, NoteOK, PackageNote
  <2> QED
    BY <1>5, <2>1, <2>3
<1> QED
  BY <1>1, <1>3, <1>4, <1>5, PackageNextCases

-----------------------------------------------------------------------------
(* The children.  A child that left its package price has been quoted: its   *)
(* quote is what lets confirmQuote and bulkQuoteDecision confirm it, however *)
(* long after they have read it they write.                                  *)

Quoted == {b \in Bookings : quoted[b]}
Held   == WithStatus({"PENDING", "CONFIRMED"})
Running == {b \in Bookings : status[b] = "IN_PROGRESS"}

QuoteJob(j, q) ==
  /\ j.pc = "cqConfirm" => j.b \in q
  /\ j.pc = "bulkCommit" => j.ids \subseteq q /\ j.ids \intersect j.rest = {}

QuotesInv ==
  /\ WithStatus({"QUOTE_SENT"}) \subseteq Quoted
  /\ \A t \in Threads : QuoteJob(job[t], Quoted)

(* A child that comes to hold its slot again has been quoted. *)
RowsQuoted ==
  /\ Quoted \subseteq Quoted' /\ Present \subseteq Present'
  /\ (Held' \intersect Present) \ Held \subseteq Quoted'
  /\ WithStatus({"QUOTE_SENT"})' \subseteq Quoted'

LEMMA QuotedContinue ==
  ASSUME TypeInv, QuotesInv, RowsQuoted, NEW t \in Threads, NEW j, Continue(t, j),
         QuoteJob(j, Quoted')
  PROVE  QuotesInv'
<1>1. \A u \in Threads : job'[u] = IF u = t THEN j ELSE job[u]
  BY DEF Continue, TypeInv
<1>2. \A u \in Threads : QuoteJob(job'[u], Quoted')
  BY <1>1 DEF QuotesInv, RowsQuoted, QuoteJob
<1> QED
  BY <1>2 DEF QuotesInv, RowsQuoted

LEMMA QuotedFinish ==
  ASSUME TypeInv, QuotesInv, RowsQuoted, NEW t \in Threads, Finish(t) PROVE QuotesInv'
BY QuotedContinue DEF Finish, Idle, Task, QuoteJob

LEMMA QuotedTask ==
  ASSUME TypeInv, QuotesInv, RowsQuoted, NEW t \in Threads, NEW pc, NEW b, NEW ids, NEW rest,
         NEW note, Continue(t, Task(pc, b, ids, rest, note)), pc \notin {"cqConfirm", "bulkCommit"}
  PROVE  QuotesInv'
BY QuotedContinue DEF Task, QuoteJob

LEMMA QuotedOn ==
  ASSUME TypeInv, QuotesInv, RowsQuoted, NEW t \in Threads, NEW pc, NEW b,
         Continue(t, On(pc, b)), pc \notin {"cqConfirm", "bulkCommit"}
  PROVE  QuotesInv'
BY QuotedContinue DEF On, Task, QuoteJob

LEMMA QuotedProgress ==
  ASSUME TypeInv, QuotesInv, RowsQuoted, NEW t \in Threads, NEW S, ProgressNext(t, S)
  PROVE  QuotesInv'
BY QuotedFinish, QuotedTask DEF ProgressNext

LEMMA QuotedUnmoved ==
  ASSUME QuotesInv, UNCHANGED <<status, quoted>> PROVE RowsQuoted
BY DEF QuotesInv, RowsQuoted, Quoted, Held, Present, WithStatus

LEMMA QuotedWrites ==
  ASSUME QuotesInv, UNCHANGED quoted,
         \A b \in Bookings :
           \/ status'[b] = status[b]
           \/ status'[b] \in {"CANCELLED", "REJECTED", "IN_PROGRESS", "COMPLETED"}
           \/ status'[b] = "CONFIRMED" /\ (b \in Quoted \/ status[b] = "PENDING")
           \/ status'[b] = "PENDING" /\ status[b] = "NONE"
  PROVE  RowsQuoted
BY DEF QuotesInv, RowsQuoted, Quoted, Held, Present, WithStatus

LEMMA CallQuoted ==
  ASSUME TypeInv, QuotesInv, NEW t \in Threads, Call(t) PROVE QuotesInv' /\ RowsQuoted
<1>1. RowsQuoted
  BY QuotedUnmoved DEF Call, AddServiceToEvent, CancelEvent, SendQuote, RejectBooking,
     CompleteBooking, ConfirmQuote, RejectQuote, CreatePayment, ConfirmPayment, MarkCashPaid,
     RefundPayment, BulkQuoteDecision, OnlyReads, rowVars, bookingVars
<1>2. CASE AddServiceToEvent(t) \/ CancelEvent(t)
  BY <1>1, <1>2, QuotedOn DEF AddServiceToEvent, CancelEvent
<1>3. ASSUME NEW b \in Bookings,
             \/ SendQuote(t, b) \/ RejectBooking(t, b) \/ CompleteBooking(t, b)
             \/ RejectQuote(t, b) \/ ConfirmPayment(t, b) \/ RefundPayment(t, b)
      PROVE  QuotesInv'
  BY <1>1, <1>3, QuotedOn DEF SendQuote, RejectBooking, CompleteBooking, RejectQuote,
     ConfirmPayment, RefundPayment
<1>4. ASSUME NEW b \in Bookings, ConfirmQuote(t, b) PROVE QuotesInv'
  <2> DEFINE j == On("cqConfirm", b)
  <2>1. b \in Quoted'
    BY <1>1, <1>4 DEF ConfirmQuote, QuotesInv, WithStatus, RowsQuoted
  <2>2. QuoteJob(j, Quoted')
    BY <2>1 DEF QuoteJob, On, Task
  <2>3. Continue(t, j)
    BY <1>4 DEF ConfirmQuote
  <2> HIDE DEF j
  <2> QED
    BY <1>1, <2>2, <2>3, QuotedContinue
<1>5. ASSUME NEW b \in Bookings, NEW m \in PaymentMethod, CreatePayment(t, b, m) \/ MarkCashPaid(t, b)
      PROVE  QuotesInv'
  BY <1>1, <1>5, QuotedTask DEF CreatePayment, MarkCashPaid
<1>6. ASSUME NEW accepted \in SUBSET Bookings, NEW rejected \in SUBSET Bookings,
             NEW m \in PaymentMethod, BulkQuoteDecision(t, accepted, rejected, m)
      PROVE  QuotesInv'
  <2> DEFINE j == Task("bulkCommit", EventId, accepted, rejected, m)
  <2>1. accepted \subseteq Quoted'
    BY <1>1, <1>6 DEF BulkQuoteDecision, QuotesInv, WithStatus, RowsQuoted
  <2>2. QuoteJob(j, Quoted')
    BY <1>6, <2>1 DEF BulkQuoteDecision, QuoteJob, Task
  <2>3. Continue(t, j)
    BY <1>6 DEF BulkQuoteDecision
  <2> HIDE DEF j
  <2> QED
    BY <1>1, <2>2, <2>3, QuotedContinue
<1>7. "CASH" \in PaymentMethod
  BY DEF PaymentMethod
<1> QED
  BY <1>1, <1>2, <1>3, <1>4, <1>5, <1>6, <1>7 DEF Call

LEMMA BookingStepsQuoted ==
  ASSUME TypeInv, QuotesInv, NEW t \in Threads,
         \/ \E b \in Bookings : AddServiceCommit(t, b)
         \/ CancelEventRead(t) \/ CancelEventCommit(t)
         \/ SendQuoteCommit(t) \/ RejectBookingWrite(t) \/ CompleteBookingWrite(t)
         \/ ConfirmQuoteWrite(t) \/ CreateIfRequired(t)
         \/ RejectQuoteSiblings(t) \/ RejectQuoteCommit(t)
  PROVE  QuotesInv' /\ RowsQuoted
<1> USE JobTyped DEF TypeInv, RowsTypeOK
<1>1. CASE \/ \E b \in Bookings : AddServiceCommit(t, b)
           \/ CancelEventCommit(t) \/ RejectBookingWrite(t) \/ CompleteBookingWrite(t)
           \/ RejectQuoteCommit(t)
  <2>1. RowsQuoted
    BY <1>1, QuotedWrites DEF AddServiceCommit, InsertBookings, WriteAll, CancelEventCommit,
       RejectBookingWrite, CompleteBookingWrite, ProviderWrite, RejectQuoteCommit
  <2> QED
    BY <1>1, <2>1, QuotedFinish DEF AddServiceCommit, CancelEventCommit, RejectBookingWrite,
       CompleteBookingWrite, ProviderWrite, RejectQuoteCommit
<1>2. CASE CancelEventRead(t) \/ RejectQuoteSiblings(t)
  <2>1. RowsQuoted
    BY <1>2, QuotedUnmoved DEF CancelEventRead, RejectQuoteSiblings, OnlyReads, rowVars,
       bookingVars
  <2> QED
    BY <1>2, <2>1, QuotedFinish, QuotedTask DEF CancelEventRead, RejectQuoteSiblings
<1>3. CASE SendQuoteCommit(t)
  <2> DEFINE b == job[t].b
  <2>1. b \in Bookings /\ WithStatus({"QUOTE_SENT"}) \subseteq Quoted
    BY <1>3 DEF SendQuoteCommit, At, NoteOK, OneBookingSteps, QuotesInv
  <2>2. /\ status' = [status EXCEPT ![b] = "QUOTE_SENT"]
        /\ quoted' = [quoted EXCEPT ![b] = TRUE]
    BY <1>3 DEF SendQuoteCommit
  <2> HIDE DEF b
  <2>3. Quoted' = Quoted \union {b}
    BY <2>1, <2>2 DEF Quoted
  <2>4. RowsQuoted
    BY <2>1, <2>2, <2>3 DEF RowsQuoted, Held, Present, WithStatus
  <2> QED
    BY <1>3, <2>4, QuotedFinish DEF SendQuoteCommit
<1>4. CASE ConfirmQuoteWrite(t)
  <2>1. job[t].b \in Quoted
    BY <1>4 DEF ConfirmQuoteWrite, At, QuotesInv, QuoteJob
  <2>2. RowsQuoted
    BY <1>4, <2>1, QuotedWrites DEF ConfirmQuoteWrite
  <2> QED
    BY <1>4, <2>2, QuotedOn DEF ConfirmQuoteWrite
<1>5. CASE CreateIfRequired(t)
  <2>1. RowsQuoted
    BY <1>5, QuotedUnmoved DEF CreateIfRequired, bookingVars
  <2> QED
    BY <1>5, <2>1, QuotedOn DEF CreateIfRequired
<1> QED
  BY <1>1, <1>2, <1>3, <1>4, <1>5

LEMMA ProgressStepsQuoted ==
  ASSUME TypeInv, QuotesInv, NEW t \in Threads,
         \/ TryProgressEventRead(t) \/ TryProgressEventCommit(t)
         \/ \E b \in Bookings : TryProgressEventPaid(t, b)
         \/ BulkConflict(t) \/ BulkCommit(t)
         \/ \E x \in Bookings \union {EventId} : ProgressBookingRead(t, x)
         \/ ProgressEventRead(t) \/ ProgressCommit(t)
  PROVE  QuotesInv' /\ RowsQuoted
<1> USE JobTyped DEF TypeInv, RowsTypeOK
<1>1. ASSUME OnlyReads PROVE RowsQuoted
  BY <1>1, QuotedUnmoved DEF OnlyReads, rowVars, bookingVars
<1>2. CASE TryProgressEventRead(t) \/ BulkConflict(t) \/ ProgressEventRead(t)
  <2>1. RowsQuoted
    BY <1>1, <1>2 DEF TryProgressEventRead, BulkConflict, ProgressEventRead
  <2> QED
    BY <1>2, <2>1, QuotedFinish, QuotedTask
       DEF TryProgressEventRead, BulkConflict, ProgressEventRead
<1>3. ASSUME NEW b \in Bookings, TryProgressEventPaid(t, b) PROVE QuotesInv' /\ RowsQuoted
  <2> DEFINE rest == job[t].rest \ {b}
             ids == job[t].ids
             pc == IF rest = {} THEN "tpCommit" ELSE "tpPaid"
  <2>1. RowsQuoted /\ pc \notin {"cqConfirm", "bulkCommit"}
    BY <1>1, <1>3 DEF TryProgressEventPaid
  <2>2. Finish(t) \/ Continue(t, Task(pc, EventId, ids, rest, "NONE"))
    BY <1>3 DEF TryProgressEventPaid
  <2> HIDE DEF pc, ids, rest
  <2> QED
    BY <2>1, <2>2, QuotedFinish, QuotedTask
<1>4. CASE TryProgressEventCommit(t) \/ ProgressCommit(t)
  <2>1. quoted' = quoted /\ \A b \in Bookings : status'[b] \in {status[b], "IN_PROGRESS"}
    <3>1. CASE TryProgressEventCommit(t)
      BY <3>1 DEF TryProgressEventCommit, WriteAll
    <3>2. CASE ProgressCommit(t)
      BY <3>2 DEF ProgressCommit
    <3> QED
      BY <1>4, <3>1, <3>2
  <2>2. RowsQuoted
    BY <2>1, QuotedWrites
  <2> QED
    BY <1>4, <2>2, QuotedFinish, QuotedProgress DEF TryProgressEventCommit, ProgressCommit
<1>5. CASE BulkCommit(t)
  <2>1. job[t].ids \subseteq Quoted
    BY <1>5 DEF BulkCommit, At, QuotesInv, QuoteJob
  <2>2. /\ status' = WriteAll(WriteAll(status, job[t].ids, "CONFIRMED"), job[t].rest, "CANCELLED")
        /\ quoted' = quoted
    BY <1>5 DEF BulkCommit
  <2>3. \A b \in Bookings :
          status'[b] \in {status[b], "CANCELLED"} \/ (status'[b] = "CONFIRMED" /\ b \in Quoted)
    BY <2>1, <2>2 DEF WriteAll
  <2>4. RowsQuoted
    BY <2>2, <2>3, QuotedWrites
  <2> QED
    BY <1>5, <2>4, QuotedProgress DEF BulkCommit
<1>6. ASSUME NEW x \in Bookings \union {EventId}, ProgressBookingRead(t, x)
      PROVE  QuotesInv' /\ RowsQuoted
  <2> DEFINE rest == job[t].rest \ {x}
  <2>1. RowsQuoted
    BY <1>1, <1>6 DEF ProgressBookingRead
  <2>2. Continue(t, Task("pbEvent", x, {}, rest, "NONE")) \/ ProgressNext(t, rest)
    BY <1>6 DEF ProgressBookingRead
  <2> HIDE DEF rest
  <2> QED
    BY <2>1, <2>2, QuotedTask, QuotedProgress
<1> QED
  BY <1>2, <1>3, <1>4, <1>5, <1>6

LEMMA PaymentStepsQuoted ==
  ASSUME TypeInv, QuotesInv, NEW t \in Threads,
         \/ CreatePaymentRow(t) \/ GatewayCreateIntent(t) \/ IntentRowWrite(t)
         \/ ProcessElectronicPayment(t) \/ GatewayCharge(t) \/ GatewayVerifyIntent(t)
         \/ PaymentFailedWrite(t) \/ MarkPaidWrite(t) \/ MarkPaidDeadline(t)
         \/ RefundPaymentWrite(t)
  PROVE  QuotesInv' /\ RowsQuoted
<1>1. RowsQuoted
  BY QuotedUnmoved DEF CreatePaymentRow, GatewayCreateIntent, IntentRowWrite,
     ProcessElectronicPayment, GatewayCharge, GatewayVerifyIntent, PaymentFailedWrite,
     MarkPaidWrite, MarkPaidDeadline, RefundPaymentWrite, PaymentWrite, OnlyReads, rowVars,
     bookingVars
<1>2. CASE \/ CreatePaymentRow(t) \/ IntentRowWrite(t) \/ PaymentFailedWrite(t)
           \/ RefundPaymentWrite(t) \/ MarkPaidWrite(t)
  BY <1>1, <1>2, QuotedFinish, QuotedOn DEF CreatePaymentRow, IntentRowWrite,
     PaymentFailedWrite, RefundPaymentWrite, MarkPaidWrite
<1>3. CASE GatewayCreateIntent(t) \/ ProcessElectronicPayment(t)
  BY <1>1, <1>3, QuotedOn DEF GatewayCreateIntent, ProcessElectronicPayment
<1>4. CASE GatewayCharge(t) \/ GatewayVerifyIntent(t)
  BY <1>1, <1>4, QuotedOn, QuotedTask DEF GatewayCharge, GatewayVerifyIntent
<1>5. CASE MarkPaidDeadline(t)
  BY <1>1, <1>5, QuotedProgress DEF MarkPaidDeadline
<1> QED
  BY <1>1, <1>2, <1>3, <1>4, <1>5

LEMMA CronStepsQuoted ==
  ASSUME TypeInv, QuotesInv, NEW t \in Threads,
         \/ CronPass(t) \/ Fail(t)
         \/ \E b \in Bookings : ExpireBooking(t, b)
         \/ PastCancelUndecided(t) \/ PastCompleteRunning(t) \/ PastCompleteEvent(t)
  PROVE  QuotesInv' /\ RowsQuoted
<1> USE DEF TypeInv, RowsTypeOK
<1>1. CASE CronPass(t) \/ Fail(t) \/ PastCompleteEvent(t)
  <2>1. RowsQuoted
    BY <1>1, QuotedUnmoved DEF CronPass, HandleExpiredBookings, CompletePastEvents, Fail,
       PastCompleteEvent, OnlyReads, rowVars, bookingVars
  <2> QED
    BY <1>1, <2>1, QuotedFinish, QuotedTask, QuotedOn DEF CronPass, HandleExpiredBookings,
       CompletePastEvents, Fail, PastCompleteEvent
<1>2. CASE \E b \in Bookings : ExpireBooking(t, b)
  <2>1. RowsQuoted
    BY <1>2, QuotedWrites DEF ExpireBooking
  <2> QED
    BY <1>2, <2>1, QuotedFinish, QuotedTask DEF ExpireBooking
<1>3. CASE PastCancelUndecided(t) \/ PastCompleteRunning(t)
  <2>1. RowsQuoted
    BY <1>3, QuotedWrites DEF PastCancelUndecided, PastCompleteRunning, PastWrite, WriteAll
  <2> QED
    BY <1>3, <2>1, QuotedOn DEF PastCancelUndecided, PastCompleteRunning, PastWrite
<1> QED
  BY <1>1, <1>2, <1>3

LEMMA ChildQuoted ==
  ASSUME TypeInv, QuotesInv, ChildNext PROVE QuotesInv' /\ RowsQuoted
<1>1. ASSUME NEW t \in Threads, Call(t) \/ CronPass(t) \/ Advance(t) \/ Fail(t)
      PROVE  QuotesInv' /\ RowsQuoted
  BY <1>1, CallQuoted, BookingStepsQuoted, ProgressStepsQuoted, PaymentStepsQuoted,
     CronStepsQuoted DEF Advance
<1>2. CASE (\E b \in Bookings : CustomerPaysIntent(b) \/ DeadlinePasses(b)) \/ EventTimePasses
  <2>1. RowsQuoted /\ job' = job
    BY <1>2, QuotedUnmoved DEF CustomerPaysIntent, DeadlinePasses, EventTimePasses, bookingVars
  <2> QED
    BY <2>1 DEF QuotesInv, QuoteJob, RowsQuoted
<1> QED
  BY <1>1, <1>2 DEF ChildNext

-----------------------------------------------------------------------------
(* A child starts by itself only after a payment of its own: whatever has    *)
(* become of the purchase, a handler that goes on to start a booking has     *)
(* seen its payment, and no step takes that back.                            *)

StartSteps == {"tpPaid", "tpCommit", "pbBooking", "pbEvent", "pbCommit", "tgCommit"}

StartJob(j, paid) ==
  /\ j.pc = "tpPaid" => j.ids \ j.rest \subseteq paid
  /\ j.pc \in {"tpCommit", "tgCommit"} => j.ids \subseteq paid
  /\ j.pc \in {"pbBooking", "pbEvent", "pbCommit"} => j.rest \intersect Bookings \subseteq paid
  /\ j.pc \in {"pbEvent", "pbCommit"} => j.b \in paid

StartsInv == PaidIsDated /\ \A t \in Threads : StartJob(job[t], Paid)

(* Every booking that a step starts has been paid for by itself. *)
RowsStart ==
  /\ Paid \subseteq Paid' /\ PaidIsDated'
  /\ Running' \subseteq Running \union Paid

LEMMA StartContinue ==
  ASSUME TypeInv, StartsInv, RowsStart, NEW t \in Threads, NEW j, Continue(t, j),
         StartJob(j, Paid')
  PROVE  StartsInv'
<1>1. \A u \in Threads : job'[u] = IF u = t THEN j ELSE job[u]
  BY DEF Continue, TypeInv
<1>2. \A u \in Threads : StartJob(job'[u], Paid')
  BY <1>1 DEF StartsInv, RowsStart, StartJob
<1> QED
  BY <1>2 DEF StartsInv, RowsStart

LEMMA StartTask ==
  ASSUME TypeInv, StartsInv, RowsStart, NEW t \in Threads, NEW pc, NEW b, NEW ids, NEW rest,
         NEW note, Continue(t, Task(pc, b, ids, rest, note)), pc \notin StartSteps
  PROVE  StartsInv'
BY StartContinue DEF Task, StartJob, StartSteps

LEMMA StartFinish ==
  ASSUME TypeInv, StartsInv, RowsStart, NEW t \in Threads, Finish(t) PROVE StartsInv'
BY StartTask DEF Finish, Idle, StartSteps

LEMMA StartOn ==
  ASSUME TypeInv, StartsInv, RowsStart, NEW t \in Threads, NEW pc, NEW b,
         Continue(t, On(pc, b)), pc \notin StartSteps
  PROVE  StartsInv'
BY StartTask DEF On

LEMMA StartProgress ==
  ASSUME TypeInv, StartsInv, RowsStart, NEW t \in Threads, NEW S, ProgressNext(t, S),
         S \intersect Bookings \subseteq Paid'
  PROVE  StartsInv'
<1>1. StartJob(Task("pbBooking", EventId, {}, S, "NONE"), Paid')
  BY DEF StartJob, Task
<1> QED
  BY <1>1, StartFinish, StartContinue DEF ProgressNext

LEMMA StartUnmoved ==
  ASSUME StartsInv, UNCHANGED <<status, payment, paidAt>> PROVE RowsStart
BY DEF StartsInv, RowsStart, PaidIsDated, IsPaid, Paid, Running

LEMMA StartWrites ==
  ASSUME StartsInv, UNCHANGED <<payment, paidAt>>,
         \A b \in Bookings : status'[b] = "IN_PROGRESS" => status[b] = "IN_PROGRESS" \/ b \in Paid
  PROVE  RowsStart
BY DEF StartsInv, RowsStart, PaidIsDated, IsPaid, Paid, Running

LEMMA StartPays ==
  ASSUME StartsInv, UNCHANGED status,
         \A b \in Bookings : /\ paidAt[b] => paidAt'[b]
                             /\ payment'[b] = "PAID" => payment[b] = "PAID" \/ paidAt'[b]
  PROVE  RowsStart
BY DEF StartsInv, RowsStart, PaidIsDated, IsPaid, Paid, Running

LEMMA CallStarts ==
  ASSUME TypeInv, StartsInv, NEW t \in Threads, Call(t) \/ CronPass(t) \/ Fail(t)
  PROVE  StartsInv' /\ RowsStart
<1>1. RowsStart
  BY StartUnmoved DEF Call, AddServiceToEvent, CancelEvent, SendQuote, RejectBooking,
     CompleteBooking, ConfirmQuote, RejectQuote, CreatePayment, ConfirmPayment, MarkCashPaid,
     RefundPayment, BulkQuoteDecision, CronPass, HandleExpiredBookings, CompletePastEvents, Fail,
     OnlyReads, rowVars, bookingVars, paymentVars
<1>2. CASE AddServiceToEvent(t) \/ CancelEvent(t)
  BY <1>1, <1>2, StartOn DEF AddServiceToEvent, CancelEvent, StartSteps
<1>3. ASSUME NEW b \in Bookings,
             \/ SendQuote(t, b) \/ RejectBooking(t, b) \/ CompleteBooking(t, b)
             \/ ConfirmQuote(t, b) \/ RejectQuote(t, b) \/ ConfirmPayment(t, b)
             \/ RefundPayment(t, b)
      PROVE  StartsInv'
  BY <1>1, <1>3, StartOn DEF SendQuote, RejectBooking, CompleteBooking, ConfirmQuote, RejectQuote,
     ConfirmPayment, RefundPayment, StartSteps
<1>4. ASSUME NEW b \in Bookings, NEW m \in PaymentMethod, CreatePayment(t, b, m) \/ MarkCashPaid(t, b)
      PROVE  StartsInv'
  BY <1>1, <1>4, StartTask DEF CreatePayment, MarkCashPaid, StartSteps
<1>5. ASSUME NEW accepted \in SUBSET Bookings, NEW rejected \in SUBSET Bookings,
             NEW m \in PaymentMethod, BulkQuoteDecision(t, accepted, rejected, m)
      PROVE  StartsInv'
  BY <1>1, <1>5, StartTask DEF BulkQuoteDecision, StartSteps
<1>6. CASE CronPass(t) \/ Fail(t)
  BY <1>1, <1>6, StartFinish, StartTask, StartOn DEF CronPass, HandleExpiredBookings,
     CompletePastEvents, Fail, StartSteps
<1>7. "CASH" \in PaymentMethod
  BY DEF PaymentMethod
<1> QED
  BY <1>1, <1>2, <1>3, <1>4, <1>5, <1>6, <1>7 DEF Call

LEMMA BookingStepsStart ==
  ASSUME TypeInv, StartsInv, NEW t \in Threads,
         \/ \E b \in Bookings : AddServiceCommit(t, b)
         \/ CancelEventRead(t) \/ CancelEventCommit(t)
         \/ SendQuoteCommit(t) \/ RejectBookingWrite(t) \/ CompleteBookingWrite(t)
         \/ ConfirmQuoteWrite(t) \/ CreateIfRequired(t)
         \/ RejectQuoteSiblings(t) \/ RejectQuoteCommit(t)
         \/ \E b \in Bookings : ExpireBooking(t, b)
         \/ PastCancelUndecided(t) \/ PastCompleteRunning(t) \/ PastCompleteEvent(t)
  PROVE  StartsInv' /\ RowsStart
<1> USE DEF TypeInv, RowsTypeOK, StartSteps
<1>1. CASE \/ \E b \in Bookings : AddServiceCommit(t, b)
           \/ CancelEventCommit(t) \/ SendQuoteCommit(t) \/ RejectBookingWrite(t)
           \/ CompleteBookingWrite(t) \/ RejectQuoteCommit(t)
  <2>1. RowsStart
    BY <1>1, StartWrites DEF AddServiceCommit, InsertBookings, WriteAll, CancelEventCommit,
       SendQuoteCommit, RejectBookingWrite, CompleteBookingWrite, ProviderWrite,
       RejectQuoteCommit, paymentVars
  <2> QED
    BY <1>1, <2>1, StartFinish DEF AddServiceCommit, CancelEventCommit, SendQuoteCommit,
       RejectBookingWrite, CompleteBookingWrite, ProviderWrite, RejectQuoteCommit
<1>2. CASE CancelEventRead(t) \/ RejectQuoteSiblings(t)
  <2>1. RowsStart
    BY <1>2, StartUnmoved DEF CancelEventRead, RejectQuoteSiblings, OnlyReads, rowVars,
       bookingVars, paymentVars
  <2> QED
    BY <1>2, <2>1, StartFinish, StartTask DEF CancelEventRead, RejectQuoteSiblings
<1>3. CASE ConfirmQuoteWrite(t)
  <2>1. RowsStart
    BY <1>3, StartWrites DEF ConfirmQuoteWrite, paymentVars
  <2> QED
    BY <1>3, <2>1, StartOn DEF ConfirmQuoteWrite
<1>4. CASE CreateIfRequired(t)
  <2>1. RowsStart
    BY <1>4, StartUnmoved DEF CreateIfRequired, bookingVars, paymentVars
  <2> QED
    BY <1>4, <2>1, StartOn DEF CreateIfRequired
<1>5. CASE \E b \in Bookings : ExpireBooking(t, b)
  <2>1. RowsStart
    BY <1>5, StartWrites DEF ExpireBooking, paymentVars
  <2> QED
    BY <1>5, <2>1, StartFinish, StartTask DEF ExpireBooking
<1>6. CASE PastCancelUndecided(t) \/ PastCompleteRunning(t)
  <2>1. RowsStart
    BY <1>6, StartWrites DEF PastCancelUndecided, PastCompleteRunning, PastWrite, WriteAll,
       paymentVars
  <2> QED
    BY <1>6, <2>1, StartOn DEF PastCancelUndecided, PastCompleteRunning, PastWrite
<1>7. CASE PastCompleteEvent(t)
  <2>1. RowsStart
    BY <1>7, StartUnmoved DEF PastCompleteEvent, bookingVars, paymentVars
  <2> QED
    BY <1>7, <2>1, StartFinish DEF PastCompleteEvent
<1> QED
  BY <1>1, <1>2, <1>3, <1>4, <1>5, <1>6, <1>7

LEMMA ProgressStepsStart ==
  ASSUME TypeInv, StartsInv, NEW t \in Threads,
         \/ TryProgressEventRead(t) \/ TryProgressEventCommit(t)
         \/ \E b \in Bookings : TryProgressEventPaid(t, b)
         \/ BulkConflict(t) \/ BulkCommit(t)
         \/ \E x \in Bookings \union {EventId} : ProgressBookingRead(t, x)
         \/ ProgressEventRead(t) \/ ProgressCommit(t)
  PROVE  StartsInv' /\ RowsStart
<1> USE DEF TypeInv, RowsTypeOK
<1>1. ASSUME OnlyReads PROVE RowsStart /\ Paid' = Paid
  BY <1>1, StartUnmoved DEF OnlyReads, rowVars, bookingVars, paymentVars, Paid
<1>2. StartJob(job[t], Paid)
  BY DEF StartsInv
<1>3. CASE TryProgressEventRead(t) \/ BulkConflict(t)
  <2> DEFINE confirmed == WithStatus({"CONFIRMED"})
  <2>1. Finish(t) \/ Continue(t, Task("tpPaid", EventId, confirmed, confirmed, "NONE"))
    BY <1>3 DEF TryProgressEventRead, BulkConflict
  <2>2. StartJob(Task("tpPaid", EventId, confirmed, confirmed, "NONE"), Paid')
    BY DEF StartJob, Task
  <2>3. RowsStart
    BY <1>1, <1>3 DEF TryProgressEventRead, BulkConflict
  <2> HIDE DEF confirmed
  <2> QED
    BY <2>1, <2>2, <2>3, StartFinish, StartContinue
<1>4. ASSUME NEW b \in Bookings, TryProgressEventPaid(t, b) PROVE StartsInv' /\ RowsStart
  <2> DEFINE rest == job[t].rest \ {b}
             ids == job[t].ids
             pc == IF rest = {} THEN "tpCommit" ELSE "tpPaid"
             j == Task(pc, EventId, ids, rest, "NONE")
  <2>1. RowsStart /\ Paid' = Paid
    BY <1>1, <1>4 DEF TryProgressEventPaid
  <2>2. CASE Finish(t)
    BY <2>1, <2>2, StartFinish
  <2>3. CASE IsPaid(b) /\ Continue(t, j)
    <3>1. b \in Paid /\ ids \ job[t].rest \subseteq Paid
      BY <1>2, <1>4, <2>3 DEF TryProgressEventPaid, At, StartJob, StartsInv, PaidIsDated, Paid
    <3>2. ids \ rest \subseteq Paid'
      BY <2>1, <3>1
    <3>3. StartJob(j, Paid')
      BY <3>2 DEF StartJob, Task
    <3> HIDE DEF j
    <3> QED
      BY <2>1, <2>3, <3>3, StartContinue
  <2> QED
    BY <1>4, <2>2, <2>3 DEF TryProgressEventPaid
<1>5. CASE TryProgressEventCommit(t)
  <2>1. job[t].ids \subseteq Paid
    BY <1>2, <1>5 DEF TryProgressEventCommit, At, StartJob
  <2>2. RowsStart
    BY <1>5, <2>1, StartWrites DEF TryProgressEventCommit, WriteAll, paymentVars
  <2> QED
    BY <1>5, <2>2, StartFinish DEF TryProgressEventCommit
<1>6. CASE ProgressCommit(t)
  <2>1. job[t].b \in Paid /\ job[t].rest \intersect Bookings \subseteq Paid
    BY <1>2, <1>6 DEF ProgressCommit, At, StartJob
  <2>2. RowsStart
    BY <1>6, <2>1, StartWrites DEF ProgressCommit, paymentVars
  <2>3. job[t].rest \intersect Bookings \subseteq Paid'
    BY <2>1, <2>2 DEF RowsStart
  <2> QED
    BY <1>6, <2>2, <2>3, StartProgress DEF ProgressCommit
<1>7. CASE BulkCommit(t)
  <2> DEFINE accepted == job[t].ids
             m == job[t].note
             bankIds == IF m = "BANK_TRANSFER" THEN accepted ELSE {}
  <2>1. /\ status' = WriteAll(WriteAll(status, accepted, "CONFIRMED"), job[t].rest, "CANCELLED")
        /\ payment' = WriteAll(payment, accepted, IF m = "CASH" THEN "PROCESSING" ELSE "PAID")
        /\ paidAt' = WriteAll(paidAt, bankIds, TRUE)
        /\ ProgressNext(t, BulkCleared(accepted, m))
    BY <1>7 DEF BulkCommit
  <2>2. m \in PaymentMethod
    BY <1>7, JobTyped DEF BulkCommit, At, NoteOK
  <2>3. RowsStart
    BY <2>1, <2>2 DEF RowsStart, StartsInv, PaidIsDated, IsPaid, Paid, Running, WriteAll,
       PaymentMethod
  <2>4. BulkCleared(accepted, m) \intersect Bookings \subseteq Paid'
    BY <2>1 DEF BulkCleared, Paid, WriteAll
  <2> HIDE DEF accepted, m
  <2> QED
    BY <2>1, <2>3, <2>4, StartProgress
<1>8. ASSUME NEW x \in Bookings \union {EventId}, ProgressBookingRead(t, x)
      PROVE  StartsInv' /\ RowsStart
  <2> DEFINE rest == job[t].rest \ {x}
             j == Task("pbEvent", x, {}, rest, "NONE")
  <2>1. RowsStart /\ Paid' = Paid
    BY <1>1, <1>8 DEF ProgressBookingRead
  <2>2. rest \intersect Bookings \subseteq Paid' /\ (x \in Bookings => x \in Paid')
    BY <1>2, <1>8, <2>1 DEF ProgressBookingRead, At, StartJob
  <2>3. (x \in Bookings /\ Continue(t, j)) \/ ProgressNext(t, rest)
    BY <1>8 DEF ProgressBookingRead, WithStatus
  <2>4. x \in Bookings => StartJob(j, Paid')
    BY <2>2 DEF StartJob, Task
  <2> HIDE DEF j, rest
  <2> QED
    BY <2>1, <2>2, <2>3, <2>4, StartContinue, StartProgress
<1>9. CASE ProgressEventRead(t)
  <2> DEFINE j == Task("pbCommit", job[t].b, {}, job[t].rest, event)
  <2>1. RowsStart /\ Paid' = Paid
    BY <1>1, <1>9 DEF ProgressEventRead
  <2>2. StartJob(j, Paid')
    BY <1>2, <1>9, <2>1 DEF ProgressEventRead, At, StartJob, Task
  <2>3. Continue(t, j)
    BY <1>9 DEF ProgressEventRead
  <2> HIDE DEF j
  <2> QED
    BY <2>1, <2>2, <2>3, StartContinue
<1> QED
  BY <1>3, <1>4, <1>5, <1>6, <1>7, <1>8, <1>9

LEMMA PaymentStepsStart ==
  ASSUME TypeInv, StartsInv, NEW t \in Threads,
         \/ CreatePaymentRow(t) \/ GatewayCreateIntent(t) \/ IntentRowWrite(t)
         \/ ProcessElectronicPayment(t) \/ GatewayCharge(t) \/ GatewayVerifyIntent(t)
         \/ PaymentFailedWrite(t) \/ MarkPaidWrite(t) \/ MarkPaidDeadline(t)
         \/ RefundPaymentWrite(t)
  PROVE  StartsInv' /\ RowsStart
<1> USE DEF TypeInv, RowsTypeOK, StartSteps
<1>1. CASE CreatePaymentRow(t)
  <2>1. RowsStart
    BY <1>1, StartPays DEF CreatePaymentRow, bookingVars
  <2> QED
    BY <1>1, <2>1, StartFinish, StartOn DEF CreatePaymentRow
<1>2. CASE \/ IntentRowWrite(t) \/ ProcessElectronicPayment(t) \/ PaymentFailedWrite(t)
           \/ RefundPaymentWrite(t)
  <2>1. RowsStart
    BY <1>2, StartPays DEF IntentRowWrite, ProcessElectronicPayment, PaymentFailedWrite,
       RefundPaymentWrite, PaymentWrite, bookingVars
  <2> QED
    BY <1>2, <2>1, StartFinish, StartOn DEF IntentRowWrite, ProcessElectronicPayment,
       PaymentFailedWrite, RefundPaymentWrite
<1>3. CASE GatewayCreateIntent(t) \/ GatewayCharge(t) \/ GatewayVerifyIntent(t)
  <2>1. RowsStart
    BY <1>3, StartUnmoved DEF GatewayCreateIntent, GatewayCharge, GatewayVerifyIntent, OnlyReads,
       rowVars, bookingVars, paymentVars
  <2> QED
    BY <1>3, <2>1, StartOn, StartTask DEF GatewayCreateIntent, GatewayCharge, GatewayVerifyIntent
<1>4. CASE MarkPaidWrite(t)
  <2>1. RowsStart
    BY <1>4, StartPays DEF MarkPaidWrite, bookingVars
  <2> QED
    BY <1>4, <2>1, StartOn DEF MarkPaidWrite
<1>5. CASE MarkPaidDeadline(t)
  <2>1. RowsStart
    BY <1>5, StartUnmoved DEF MarkPaidDeadline, paymentVars
  <2>2. {EventId} \intersect Bookings \subseteq Paid'
    BY ConstantsAssumption
  <2> QED
    BY <1>5, <2>1, <2>2, StartProgress DEF MarkPaidDeadline, MarkPaidProgresses
<1> QED
  BY <1>1, <1>2, <1>3, <1>4, <1>5

LEMMA ChildStartsPaid ==
  ASSUME TypeInv, StartsInv, ChildNext PROVE StartsInv' /\ RowsStart
<1>1. ASSUME NEW t \in Threads, Call(t) \/ CronPass(t) \/ Advance(t) \/ Fail(t)
      PROVE  StartsInv' /\ RowsStart
  BY <1>1, CallStarts, BookingStepsStart, ProgressStepsStart, PaymentStepsStart DEF Advance
<1>2. CASE (\E b \in Bookings : CustomerPaysIntent(b) \/ DeadlinePasses(b)) \/ EventTimePasses
  <2>1. RowsStart /\ job' = job
    BY <1>2, StartUnmoved DEF CustomerPaysIntent, DeadlinePasses, EventTimePasses, bookingVars,
       paymentVars
  <2> QED
    BY <2>1 DEF StartsInv, StartJob, RowsStart
<1> QED
  BY <1>1, <1>2 DEF ChildNext

-----------------------------------------------------------------------------
(* What the steps of the purchase do to its rows and to its children's.     *)

Closed == {"REJECTED", "CANCELLED", "EXPIRED"}

(* The steps that touch none of its children's rows. *)
PurchaseOnly ==
  \/ \E t \in Threads : \/ PackageReads(t) \/ MovesBill(t)
                        \/ (AcceptCommit(t) /\ AcceptConflicts)
  \/ \E i \in Intents : CustomerPaysPackage(i)
  \/ \E c \in PackageCrons : Pass(c)
  \/ PackageTimePasses

LEMMA ChildrenUntouched ==
  ASSUME PurchaseOnly PROVE OnlyReads /\ UNCHANGED <<purchase, overrun>>
<1>1. ASSUME NEW t \in Threads, PackageReads(t) \/ MovesBill(t)
      PROVE  OnlyReads /\ UNCHANGED <<purchase, overrun>>
  BY <1>1, CallUntouched, OnlyTheBill DEF OnlyReads, packageVars, purchaseVars
<1>2. ASSUME NEW t \in Threads, AcceptCommit(t) /\ AcceptConflicts
      PROVE  OnlyReads /\ UNCHANGED <<purchase, overrun>>
  BY <1>2 DEF AcceptCommit, OnlyReads, packageVars, purchaseVars
<1>3. CASE \/ \E i \in Intents : CustomerPaysPackage(i)
           \/ \E c \in PackageCrons : Pass(c)
           \/ PackageTimePasses
  BY <1>3 DEF CustomerPaysPackage, Pass, PackageTimePasses, vars, OnlyReads, purchaseVars
<1> QED
  BY <1>1, <1>2, <1>3 DEF PurchaseOnly

(* The purchase is accepted, called off, started or completed, and its       *)
(* children with it.                                                         *)
Opens(t)  == AcceptCommit(t) /\ ~AcceptConflicts
Closes(t) == RejectCommit(t) \/ CancelPackageCommit(t) \/ ExpirePending \/ ExpireUnpaid
Starts(t) == ProgressPackageToInProgress(t) \/ TryProgressPackageCommit(t)
Ends(t)   == CompletePackageCommit(t) \/ CompleteFinished

LEMMA OpensRows ==
  ASSUME TypeInv, NEW t, Opens(t)
  PROVE  /\ purchase' = "PENDING_PAYMENT" /\ ChildrenKeepTheRest /\ event' = event
         /\ \A b \in Bookings : status'[b] = IF status[b] = "PENDING" THEN "CONFIRMED" ELSE status[b]
         /\ bill.status = "NONE" /\ bill' = Bill("PENDING", "CASH", "none", FALSE)
         /\ UNCHANGED <<intents, received, assumed, overrun, pass>>
BY DEF Opens, AcceptCommit, AcceptConflicts, Settle, WriteAll, WithStatus, eventVars

LEMMA ClosesRows ==
  ASSUME PackageTypeInv, NEW t, Closes(t)
  PROVE  /\ purchase' \in Closed /\ ChildrenKeepTheRest /\ event' = event
         /\ \A b \in Bookings : \/ status'[b] = status[b]
                                \/ status'[b] = "CANCELLED" /\ status[b] # "NONE"
         /\ Held' = {}
         /\ \/ Running' = {}
            \/ /\ Running' = Running /\ overrun \subseteq overrun'
               /\ purchase = "IN_PROGRESS" => Running \subseteq overrun'
         /\ bill'.paidAt = bill.paidAt /\ (bill'.status = "NONE" => bill.status = "NONE")
         /\ UNCHANGED <<paymentExpiresAt, intents, received, assumed>>
         /\ \A c \in PackageCrons : pass'[c] => pass[c]
<1>1. \E from \in SUBSET {"PENDING", "CONFIRMED", "IN_PROGRESS"} :
        /\ {"PENDING", "CONFIRMED"} \subseteq from
        /\ status' = WriteAll(status, WithStatus(from), "CANCELLED")
  BY DEF Closes, RejectCommit, CancelPackageCommit, ExpirePending, ExpireUnpaid, Settle,
     ExpirePendingCancels
<1>2. /\ \A b \in Bookings : \/ status'[b] = status[b]
                             \/ status'[b] = "CANCELLED" /\ status[b] # "NONE"
      /\ Held' = {}
  BY <1>1 DEF WriteAll, WithStatus, Held
<1>3. /\ purchase' \in Closed /\ ChildrenKeepTheRest /\ event' = event
      /\ UNCHANGED <<paymentExpiresAt, intents, received, assumed>>
  BY DEF Closes, RejectCommit, CancelPackageCommit, ExpirePending, ExpireUnpaid, Settle, Closed,
     billVars, eventVars
<1>4. bill'.paidAt = bill.paidAt /\ (bill'.status = "NONE" => bill.status = "NONE")
  <2>1. bill' = bill \/ bill' = [bill EXCEPT !.status = "CANCELLED"]
    BY DEF Closes, RejectCommit, CancelPackageCommit, ExpirePending, ExpireUnpaid, billVars,
       UnpaidBill
  <2>2. bill \in Bills
    BY DEF PackageTypeInv, PackageRowsTypeOK
  <2> QED
    BY <2>1, <2>2 DEF Bills
<1>5. \A c \in PackageCrons : pass'[c] => pass[c]
  BY DEF Closes, RejectCommit, CancelPackageCommit, ExpirePending, ExpireUnpaid, PassDone,
     PackageTypeInv, PackageRowsTypeOK
<1>6. \/ Running' = {}
      \/ /\ Running' = Running /\ overrun \subseteq overrun'
         /\ purchase = "IN_PROGRESS" => Running \subseteq overrun'
  <2>1. CASE RejectCommit(t) \/ ExpireUnpaid
    BY <2>1 DEF RejectCommit, ExpireUnpaid, Settle, WriteAll, WithStatus, Running
  <2>2. CASE CancelPackageCommit(t) \/ ExpirePending
    <3>1. /\ status' = WriteAll(status, WithStatus({"PENDING", "CONFIRMED"}), "CANCELLED")
          /\ overrun' = LeftRunning
      BY <2>2 DEF CancelPackageCommit, ExpirePending, Settle, ExpirePendingCancels
    <3>2. Running' = Running
      BY <3>1 DEF WriteAll, WithStatus, Running
    <3> QED
      BY <3>1, <3>2 DEF LeftRunning, WithStatus, Running
  <2> QED
    BY <2>1, <2>2 DEF Closes
<1> QED
  BY <1>2, <1>3, <1>4, <1>5, <1>6

LEMMA StartsRows ==
  ASSUME NEW t, Starts(t)
  PROVE  /\ purchase' = "IN_PROGRESS" /\ ChildrenKeepTheRest /\ event' \in {event, "IN_PROGRESS"}
         /\ \/ At(t, "pkProgress") /\ status' = WriteAll(status, WithStatus({"CONFIRMED"}), "IN_PROGRESS")
            \/ At(t, "tgCommit") /\ status' = WriteAll(status, job[t].ids, "IN_PROGRESS")
         /\ UNCHANGED <<paymentExpiresAt, billVars, pass>>
BY DEF Starts, ProgressPackageToInProgress, TryProgressPackageCommit, Advanced

LEMMA EndsRows ==
  ASSUME PackageTypeInv, NEW t, Ends(t)
  PROVE  /\ purchase' = "COMPLETED" /\ ChildrenKeepTheRest /\ event' = "COMPLETED"
         /\ status' = WriteAll(status, WithStatus({"IN_PROGRESS"}), "COMPLETED")
         /\ At(t, "pdCommit") \/ pass["completeFinished"]
         /\ UNCHANGED <<paymentExpiresAt, billVars>>
         /\ \A c \in PackageCrons : pass'[c] => pass[c]
<1>1. \A c \in PackageCrons : pass'[c] => pass[c]
  BY DEF Ends, CompletePackageCommit, CompleteFinished, PassDone, PackageTypeInv,
     PackageRowsTypeOK
<1> QED
  BY <1>1 DEF Ends, CompletePackageCommit, CompleteFinished, PassDone, Complete, Settle

(* Every step is of one of these kinds. *)
LEMMA PackageKinds ==
  ASSUME PackageNext
  PROVE  \/ BookPackage \/ ChildNext \/ PurchaseOnly
         \/ \E t \in Threads : \/ ChildPaidDeadline(t) \/ Opens(t) \/ Closes(t) \/ Starts(t) \/ Ends(t)
<1>1. ASSUME NEW t \in Threads, PackageStep(t)
      PROVE  PurchaseOnly \/ Opens(t) \/ Closes(t) \/ Starts(t) \/ Ends(t)
  BY <1>1 DEF PackageStep, PackageAdvance, PackageReads, MovesBill, PurchaseOnly, Opens, Closes,
     Starts, Ends
<1>2. "expireUnpaid" \in Threads \/ Threads # {}
  BY DEF Threads, Crons
<1>3. CASE CompleteFinished \/ ExpirePending \/ ExpireUnpaid
  BY <1>2, <1>3 DEF Closes, Ends
<1>4. CASE \/ \E i \in Intents : CustomerPaysPackage(i)
           \/ \E c \in PackageCrons : Pass(c)
           \/ PackageTimePasses
  BY <1>4 DEF PurchaseOnly
<1> QED
  BY <1>1, <1>3, <1>4, PackageNextCases
-----------------------------------------------------------------------------
(* The purchase is placed once, with a booking for each of its services, and *)
(* before that there is nothing a handler could work on.                     *)

Blank ==
  /\ Init
  /\ purchase = "NONE" /\ pendingExpiresAt = "none" /\ paymentExpiresAt = "none"
  /\ bill = NoBill /\ intents = [i \in Intents |-> "none"] /\ received = {}
  /\ ~assumed /\ overrun = {}
  /\ pass = [c \in PackageCrons |-> FALSE]

Placed == purchase # "NONE" /\ event # "NONE" /\ Present = Bookings

PlacedInv == Blank \/ Placed

LEMMA OnlyBooked == ASSUME Blank, PackageNext PROVE BookPackage
<1> DEFINE blank == \A t \in Threads : job[t].pc = "idle"
<1>1. blank
  BY DEF Blank, Init, Idle, Task
<1>2. /\ event = "NONE" /\ WithStatus({"PENDING", "QUOTE_SENT", "CONFIRMED"}) = {}
      /\ \A b \in Bookings : status[b] = "NONE" /\ payment[b] = "NONE" /\ intent[b] = "none"
                             /\ deadline[b] = "none" /\ method[b] = "NONE"
  BY DEF Blank, Init, WithStatus
<1>3. /\ purchase = "NONE" /\ bill.status = "NONE" /\ \A c \in PackageCrons : ~pass[c]
      /\ \A i \in Intents : intents[i] = "none"
  BY DEF Blank, NoBill, Bill
<1> HIDE DEF blank
<1>4. ASSUME NEW t \in Threads PROVE ~Call(t) /\ ~CronPass(t)
  <2>1. ~AddServiceToEvent(t) /\ ~CancelEvent(t)
    BY <1>2 DEF AddServiceToEvent, CancelEvent
  <2>2. ASSUME NEW b \in Bookings, NEW m \in PaymentMethod
        PROVE  /\ ~SendQuote(t, b) /\ ~RejectBooking(t, b) /\ ~CompleteBooking(t, b)
               /\ ~ConfirmQuote(t, b) /\ ~RejectQuote(t, b) /\ ~CreatePayment(t, b, m)
               /\ ~ConfirmPayment(t, b) /\ ~MarkCashPaid(t, b) /\ ~RefundPayment(t, b)
    BY <1>2 DEF SendQuote, RejectBooking, CompleteBooking, ConfirmQuote, RejectQuote,
       CreatePayment, ConfirmPayment, MarkCashPaid, RefundPayment
  <2>3. ASSUME NEW accepted \in SUBSET Bookings, NEW rejected \in SUBSET Bookings,
               NEW m \in PaymentMethod
        PROVE  ~BulkQuoteDecision(t, accepted, rejected, m)
    BY <1>2 DEF BulkQuoteDecision
  <2>4. "CASH" \in PaymentMethod
    BY DEF PaymentMethod
  <2>5. ~CronPass(t)
    BY <1>2 DEF CronPass, HandleExpiredBookings, CompletePastEvents, Expired, Expirable
  <2> QED
    BY <2>1, <2>2, <2>3, <2>4, <2>5 DEF Call
<1>5. ASSUME NEW t \in Threads PROVE ~Advance(t) /\ ~Fail(t)
  BY <1>1 DEF blank, Advance, AddServiceCommit, CancelEventRead, CancelEventCommit,
     SendQuoteCommit, RejectBookingWrite, CompleteBookingWrite, ProviderWrite, ConfirmQuoteWrite,
     CreateIfRequired, TryProgressEventRead, TryProgressEventCommit, TryProgressEventPaid,
     RejectQuoteSiblings, RejectQuoteCommit, BulkConflict, BulkCommit, ProgressBookingRead,
     ProgressEventRead, ProgressCommit, CreatePaymentRow, GatewayCreateIntent, IntentRowWrite,
     ProcessElectronicPayment, PaymentWrite, GatewayCharge, GatewayVerifyIntent,
     PaymentFailedWrite, MarkPaidWrite, MarkPaidDeadline, RefundPaymentWrite, ExpireBooking,
     PastCancelUndecided, PastCompleteRunning, PastWrite, PastCompleteEvent, Fail, At
<1>6. ~ChildNext
  BY <1>2, <1>4, <1>5 DEF ChildNext, CustomerPaysIntent, DeadlinePasses, EventTimePasses
<1>7. ASSUME NEW t \in Threads PROVE ~PackageCall(t)
  BY <1>3 DEF PackageCall, AcceptPackageBooking, RejectPackageBooking, CancelPackageBooking,
     PayPackageBooking, ConfirmPackageCashPayment, ConfirmPackageCardPayment,
     ConfirmPurchasePayment, CompletePackageBooking, RefundPackagePayment
<1>8. ASSUME NEW t \in Threads PROVE ~PackageAdvance(t)
  BY <1>1 DEF blank, PackageAdvance, AcceptCommit, RejectCommit, CancelPackageCommit,
     PackageCreateIntent, PackageIntentRow, PackageMockPaid, PackageCashChosen, PackageCashPaid,
     PackageVerifyIntent, PurchaseVerifyIntent, VerifyIntent, PackageCardPaid, PurchaseMarkPaid,
     PackageCardFailed, PackageRefunded, CardWrite, BillWrite, ProgressPackageToInProgress, ChildPaidDeadline, TryProgressPackageRead,
     TryProgressPackageCommit, CompletePackageCommit, At
<1>9. /\ ~PackageTimePasses /\ \A i \in Intents : ~CustomerPaysPackage(i)
      /\ \A c \in PackageCrons : ~Pass(c)
  BY <1>3 DEF PackageTimePasses, CustomerPaysPackage, Pass, Found, Finished, PendingExpired,
     UnpaidExpired
<1>10. ~CompleteFinished /\ ~ExpirePending /\ ~ExpireUnpaid
  BY <1>3 DEF CompleteFinished, ExpirePending, ExpireUnpaid, PassDone, PackageCrons
<1> QED
  BY <1>6, <1>7, <1>8, <1>9, <1>10, PackageNextCases DEF PackageStep, PackageAdvance

(* No step of a child makes the event disappear. *)
LEMMA EventStays ==
  ASSUME TypeInv, ChildNext, event # "NONE" PROVE event' # "NONE"
<1>1. ASSUME NEW t \in Threads, Call(t) \/ CronPass(t) \/ Fail(t) PROVE event' = event
  BY <1>1 DEF Call, AddServiceToEvent, CancelEvent, SendQuote, RejectBooking, CompleteBooking,
     ConfirmQuote, RejectQuote, CreatePayment, ConfirmPayment, MarkCashPaid, RefundPayment,
     BulkQuoteDecision, CronPass, HandleExpiredBookings, CompletePastEvents, Fail, OnlyReads,
     rowVars, eventVars
<1>2. ASSUME NEW t \in Threads, Advance(t) PROVE event' # "NONE"
  BY <1>2 DEF Advance, AddServiceCommit, CancelEventRead, CancelEventCommit,
     SendQuoteCommit, RejectBookingWrite, CompleteBookingWrite, ProviderWrite, ConfirmQuoteWrite,
     CreateIfRequired, TryProgressEventRead, TryProgressEventCommit, TryProgressEventPaid,
     RejectQuoteSiblings, RejectQuoteCommit, BulkConflict, BulkCommit, ProgressBookingRead,
     ProgressEventRead, ProgressCommit, CreatePaymentRow, GatewayCreateIntent, IntentRowWrite,
     ProcessElectronicPayment, PaymentWrite, GatewayCharge, GatewayVerifyIntent,
     PaymentFailedWrite, MarkPaidWrite, MarkPaidDeadline, RefundPaymentWrite, ExpireBooking,
     PastCancelUndecided, PastCompleteRunning, PastWrite, PastCompleteEvent, OnlyReads, rowVars,
     eventVars
<1>3. ASSUME NEW b \in Bookings, CustomerPaysIntent(b) \/ DeadlinePasses(b) PROVE event' = event
  BY <1>3 DEF CustomerPaysIntent, DeadlinePasses, eventVars
<1>4. EventTimePasses => event' = event
  BY DEF EventTimePasses
<1> QED
  BY <1>1, <1>2, <1>3, <1>4 DEF ChildNext

(* The jobs that are not at a child's confirmation keep what is said of the  *)
(* quotes.                                                                    *)
LEMMA QuotedJobs ==
  ASSUME QuotesInv, RowsQuoted,
         \A u \in Threads : job'[u] = job[u] \/ job'[u].pc \notin {"cqConfirm", "bulkCommit"}
  PROVE  QuotesInv'
<1>1. \A u \in Threads : QuoteJob(job'[u], Quoted')
  BY DEF QuotesInv, RowsQuoted, QuoteJob
<1> QED
  BY <1>1 DEF QuotesInv, RowsQuoted

LEMMA PackageJobs ==
  ASSUME PackageTypeInv, PackageNext, ~ChildNext
  PROVE  \A u \in Threads : \/ job'[u] = job[u]
                            \/ job'[u].pc \in PackageSteps \union {"idle"}
<1>1. Idle.pc = "idle" /\ On("tgRead", EventId).pc = "tgRead"
  BY DEF Idle, On, Task
<1>2. ASSUME NEW t \in Threads, NEW j, Errand(t, j) PROVE j.pc \in PackageSteps \union {"idle"}
  BY <1>1, <1>2 DEF Errand
<1>3. "tgRead" \in PackageSteps
  BY DEF PackageSteps
<1> QED
  BY <1>1, <1>2, <1>3, PackageTypeStep

LEMMA PlacedStep ==
  ASSUME PackageTypeInv, QuotesInv, PlacedInv, PackageNext
  PROVE  /\ QuotesInv' /\ PlacedInv'
         /\ BookPackage => Blank
         /\ BookPackage \/ RowsQuoted
<1> USE DEF PackageTypeInv, TypeInv
<1>1. CASE BookPackage
  <2>1. Blank
    BY <1>1 DEF PlacedInv, Placed, BookPackage
  <2>2. Quoted' = {} /\ WithStatus({"QUOTE_SENT"})' = {} /\ job' = job
    BY <1>1, <2>1 DEF Blank, Init, BookPackage, InsertBookings, Quoted, WithStatus, WriteAll
  <2>3. \A t \in Threads : job[t].pc = "idle"
    BY <2>1 DEF Blank, Init, Idle, Task
  <2>4. QuotesInv'
    BY <2>2, <2>3 DEF QuotesInv, QuoteJob
  <2>5. Placed'
    BY <1>1 DEF BookPackage, InsertBookings, WriteAll, Placed, Present
  <2> QED
    BY <1>1, <2>1, <2>4, <2>5 DEF PlacedInv
<1>2. CASE ~BookPackage
  <2>1. Placed
    BY <1>2, OnlyBooked DEF PlacedInv
  <2>2. ASSUME RowsQuoted, purchase' # "NONE", event' # "NONE" PROVE Placed'
    BY <2>1, <2>2 DEF Placed, RowsQuoted, Present
  <2>3. CASE ChildNext
    <3>1. event' # "NONE"
      BY <2>1, <2>3, EventStays DEF Placed
    <3>2. purchase' = purchase
      BY <2>3 DEF ChildNext, packageVars, purchaseVars
    <3>3. QuotesInv' /\ RowsQuoted
      BY <2>3, ChildQuoted
    <3> QED
      BY <1>2, <2>1, <2>2, <3>1, <3>2, <3>3 DEF Placed, PlacedInv
  <2>4. CASE ~ChildNext
    <3>1. \A u \in Threads : job'[u] = job[u] \/ job'[u].pc \notin {"cqConfirm", "bulkCommit"}
      BY <2>4, PackageJobs DEF PackageSteps
    <3>2. RowsQuoted /\ purchase' # "NONE" /\ event' # "NONE"
      <4>1. CASE PurchaseOnly
        <5>1. OnlyReads /\ purchase' = purchase
          BY <4>1, ChildrenUntouched
        <5> QED
          BY <2>1, <5>1, QuotedUnmoved DEF Placed, OnlyReads, rowVars, bookingVars, eventVars
      <4>2. ASSUME NEW t \in Threads, ChildPaidDeadline(t)
            PROVE  RowsQuoted /\ purchase' # "NONE" /\ event' # "NONE"
        BY <2>1, <4>2, QuotedUnmoved DEF ChildPaidDeadline, Placed, packageVars, purchaseVars,
           eventVars
      <4>3. ASSUME NEW t \in Threads, Opens(t)
            PROVE  RowsQuoted /\ purchase' # "NONE" /\ event' # "NONE"
        <5>1. quoted' = quoted /\ purchase' = "PENDING_PAYMENT" /\ event' = event
          BY <4>3, OpensRows DEF ChildrenKeepTheRest
        <5>2. \A b \in Bookings : status'[b] = IF status[b] = "PENDING" THEN "CONFIRMED" ELSE status[b]
          BY <4>3, OpensRows
        <5>3. RowsQuoted
          BY <5>1, <5>2, QuotedWrites
        <5> QED
          BY <2>1, <5>1, <5>3 DEF Placed
      <4>4. ASSUME NEW t \in Threads, Closes(t)
            PROVE  RowsQuoted /\ purchase' # "NONE" /\ event' # "NONE"
        <5>1. /\ quoted' = quoted /\ purchase' \in Closed /\ event' = event
              /\ \A b \in Bookings : status'[b] = status[b] \/ status'[b] = "CANCELLED"
          BY <4>4, ClosesRows DEF ChildrenKeepTheRest
        <5>2. RowsQuoted
          BY <5>1, QuotedWrites
        <5> QED
          BY <2>1, <5>1, <5>2 DEF Placed, Closed
      <4>5. ASSUME NEW t \in Threads, Starts(t)
            PROVE  RowsQuoted /\ purchase' # "NONE" /\ event' # "NONE"
        <5>1. /\ quoted' = quoted /\ purchase' = "IN_PROGRESS" /\ event' \in {event, "IN_PROGRESS"}
              /\ \A b \in Bookings : status'[b] = status[b] \/ status'[b] = "IN_PROGRESS"
          BY <4>5, StartsRows DEF ChildrenKeepTheRest, WriteAll
        <5>2. RowsQuoted
          BY <5>1, QuotedWrites
        <5> QED
          BY <2>1, <5>1, <5>2 DEF Placed
      <4>6. ASSUME NEW t \in Threads, Ends(t)
            PROVE  RowsQuoted /\ purchase' # "NONE" /\ event' # "NONE"
        <5>1. /\ quoted' = quoted /\ purchase' = "COMPLETED" /\ event' = "COMPLETED"
              /\ \A b \in Bookings : status'[b] = status[b] \/ status'[b] = "COMPLETED"
          BY <4>6, EndsRows DEF ChildrenKeepTheRest, WriteAll
        <5>2. RowsQuoted
          BY <5>1, QuotedWrites
        <5> QED
          BY <2>1, <5>1, <5>2 DEF Placed
      <4> QED
        BY <1>2, <2>4, <4>1, <4>2, <4>3, <4>4, <4>5, <4>6, PackageKinds
    <3>3. QuotesInv'
      BY <3>1, <3>2, QuotedJobs
    <3> QED
      BY <1>2, <2>2, <3>2, <3>3 DEF PlacedInv
  <2> QED
    BY <2>3, <2>4
<1> QED
  BY <1>1, <1>2

(* A purchase that is off leaves no child waiting for it that was never      *)
(* quoted.                                                                   *)
HeldInv == purchase \in Closed => Held \subseteq Quoted

LEMMA HeldStep ==
  ASSUME PackageTypeInv, QuotesInv, PlacedInv, HeldInv, PackageNext
  PROVE  HeldInv'
<1>1. SUFFICES ASSUME purchase' \in Closed PROVE Held' \subseteq Quoted'
  BY DEF HeldInv, Closed
<1>2. CASE purchase' = purchase /\ ~BookPackage
  <2>1. Present = Bookings
    BY <1>1, <1>2 DEF PlacedInv, Placed, Blank, Closed
  <2>2. RowsQuoted
    BY <1>2, PlacedStep
  <2>3. Held' \subseteq Bookings
    BY DEF Held, WithStatus
  <2> QED
    BY <1>1, <1>2, <2>1, <2>2, <2>3 DEF HeldInv, RowsQuoted
<1>3. ASSUME NEW t \in Threads, Closes(t) PROVE Held' = {}
  BY <1>3, ClosesRows
<1>4. ~BookPackage
  BY <1>1 DEF BookPackage, Closed
<1>5. ASSUME NEW t \in Threads, Opens(t) \/ Starts(t) \/ Ends(t) PROVE FALSE
  BY <1>1, <1>5, OpensRows, StartsRows, EndsRows DEF Closed, PackageTypeInv
<1>6. CASE ChildNext \/ PurchaseOnly \/ \E t \in Threads : ChildPaidDeadline(t)
  BY <1>2, <1>4, <1>6, ChildrenUntouched DEF ChildNext, ChildPaidDeadline, packageVars, purchaseVars
<1> QED
  BY <1>3, <1>4, <1>5, <1>6, PackageKinds

-----------------------------------------------------------------------------
(* The payment of the purchase.                                             *)

Succeeded == {i \in Intents : intents[i] = "succeeded"}

(* Until the owner accepts there is no payment, nor a window for it.         *)
BillInv == bill.status = "NONE" => ~bill.paidAt /\ paymentExpiresAt = "none"

(* The payment is covered: the money came, or payPackageBooking assumed it.   *)
Covered == received # {} \/ assumed

ReceivedInv ==
  /\ PurchasePaymentReceived
  /\ Succeeded # {} => received # {}
  /\ \A t \in Threads : job[t].pc \in CardSteps => received # {}

(* What every step does to the payment. *)
BillMoves ==
  /\ received \subseteq received' /\ (assumed => assumed')
  /\ bill'.status = "NONE" =>
       bill.status = "NONE" /\ bill'.paidAt = bill.paidAt /\ paymentExpiresAt' = paymentExpiresAt
  /\ bill.paidAt => bill'.paidAt \/ bill.status = "NONE"
  /\ bill'.paidAt => bill.paidAt \/ Covered'
  /\ Succeeded' # {} => Succeeded # {} \/ received' # {}
  /\ paymentExpiresAt = "passed" => paymentExpiresAt' = "passed" \/ bill.status = "NONE"

LEMMA BillUnmoved ==
  ASSUME UNCHANGED <<bill, intents, received, assumed, paymentExpiresAt>> PROVE BillMoves
BY DEF BillMoves, Succeeded

LEMMA BillSteps ==
  ASSUME PackageTypeInv, ReceivedInv, NEW t \in Threads, MovesBill(t)
  PROVE  BillMoves
<1> DEFINE note == job[t].note
<1>1. /\ bill \in Bills /\ intents \in [Intents -> {"none", "created", "open", "succeeded"}]
      /\ job[t].pc \in CardSteps => note \in Intents /\ received # {}
      /\ job[t].pc = "ppIntentRow" => note \in Intents
  BY DEF PackageTypeInv, PackageRowsTypeOK, ReceivedInv, PackageNote, CardSteps
<1> HIDE DEF note
<1>2. UNCHANGED paymentExpiresAt
  BY OnlyTheBill DEF purchaseVars
<1>3. CASE PackageCreateIntent(t)
  <2>1. /\ UNCHANGED <<bill, received, assumed>>
        /\ \A i \in Intents : intents'[i] \in {intents[i], "created"}
    BY <1>1, <1>3 DEF PackageCreateIntent
  <2> QED
    BY <1>2, <2>1 DEF BillMoves, Covered, Succeeded
<1>4. CASE PackageIntentRow(t)
  <2>1. /\ bill' = Bill("PROCESSING", "BANK_TRANSFER", note, bill.paidAt)
        /\ UNCHANGED <<received, assumed>>
        /\ \A i \in Intents : intents'[i] \in {intents[i], "open"}
    BY <1>1, <1>4 DEF PackageIntentRow, note
  <2>2. bill'.status = "PROCESSING" /\ bill'.paidAt = bill.paidAt
    BY <2>1 DEF Bill
  <2> QED
    BY <1>2, <2>1, <2>2 DEF BillMoves, Covered, Succeeded
<1>5. CASE PackageMockPaid(t)
  <2>1. bill'.status = "PAID" /\ bill'.paidAt
    BY <1>5 DEF PackageMockPaid, BillWrite, Bill
  <2>2. UNCHANGED <<intents, received>> /\ assumed'
    BY <1>5 DEF PackageMockPaid, BillWrite
  <2> QED
    BY <1>2, <2>1, <2>2 DEF BillMoves, Covered, Succeeded
<1>6. CASE PackageCashPaid(t)
  <2>1. bill'.status = "PAID" /\ bill'.paidAt
    BY <1>1, <1>6 DEF PackageCashPaid, BillWrite, Bills
  <2>2. UNCHANGED <<intents, assumed>> /\ received' = received \union {"cash"}
    BY <1>6 DEF PackageCashPaid, BillWrite
  <2> QED
    BY <1>2, <2>1, <2>2 DEF BillMoves, Covered, Succeeded
<1>7. CASE PackageCardPaid(t) \/ PurchaseMarkPaid(t)
  <2>1. PICK pc \in CardSteps : CardWrite(t, pc)
    BY <1>7 DEF PackageCardPaid, PurchaseMarkPaid, CardSteps
  <2>2. bill'.status = "PAID" /\ bill'.paidAt /\ received # {}
    BY <1>1, <2>1 DEF CardWrite, BillWrite, Bills, At
  <2>3. UNCHANGED <<intents, received, assumed>>
    BY <2>1 DEF CardWrite, BillWrite
  <2> QED
    BY <1>2, <2>2, <2>3 DEF BillMoves, Covered, Succeeded
<1>8. CASE PackageCashChosen(t) \/ PackageCardFailed(t) \/ PackageRefunded(t)
  <2>1. bill'.status \in {"PROCESSING", "FAILED", "REFUNDED"} /\ bill'.paidAt = bill.paidAt
    BY <1>1, <1>8 DEF PackageCashChosen, PackageCardFailed, PackageRefunded, BillWrite, Bills
  <2>2. UNCHANGED <<intents, received, assumed>>
    BY <1>8 DEF PackageCashChosen, PackageCardFailed, PackageRefunded, BillWrite
  <2> QED
    BY <1>2, <2>1, <2>2 DEF BillMoves, Covered, Succeeded
<1> QED
  BY <1>3, <1>4, <1>5, <1>6, <1>7, <1>8 DEF MovesBill

LEMMA NextBill ==
  ASSUME PackageTypeInv, BillInv, ReceivedInv, PackageNext PROVE BillMoves
<1>1. ASSUME UNCHANGED packageVars PROVE BillMoves
  BY <1>1, BillUnmoved DEF packageVars, purchaseVars, billVars
<1>2. CASE ChildNext \/ \E t \in Threads : ChildPaidDeadline(t)
  BY <1>1, <1>2 DEF ChildNext, ChildPaidDeadline
<1>3. CASE BookPackage
  BY <1>3, BillUnmoved DEF BookPackage, billVars
<1>4. ASSUME NEW t \in Threads, Opens(t) PROVE BillMoves
  <2>1. /\ bill'.status = "PENDING" /\ bill.status = "NONE" /\ ~bill'.paidAt
        /\ UNCHANGED <<intents, received, assumed>>
    BY <1>4, OpensRows DEF PackageTypeInv, Bill
  <2> QED
    BY <2>1 DEF BillMoves, Succeeded
<1>5. ASSUME NEW t \in Threads, Closes(t) PROVE BillMoves
  <2>1. /\ bill'.paidAt = bill.paidAt /\ (bill'.status = "NONE" => bill.status = "NONE")
        /\ UNCHANGED <<paymentExpiresAt, intents, received, assumed>>
    BY <1>5, ClosesRows
  <2> QED
    BY <2>1 DEF BillMoves, Succeeded
<1>6. ASSUME NEW t \in Threads, Starts(t) \/ Ends(t) PROVE BillMoves
  BY <1>6, StartsRows, EndsRows, BillUnmoved DEF billVars
<1>7. ASSUME NEW t \in Threads,
             \/ PackageReads(t)
             \/ AcceptCommit(t) /\ AcceptConflicts
      PROVE  BillMoves
  BY <1>1, <1>7, CallUntouched DEF AcceptCommit
<1>8. ASSUME NEW i \in Intents, CustomerPaysPackage(i) PROVE BillMoves
  BY <1>8 DEF CustomerPaysPackage, purchaseVars, BillMoves
<1>9. ASSUME NEW c \in PackageCrons, Pass(c) PROVE BillMoves
  BY <1>9, BillUnmoved DEF Pass, purchaseVars, billVars
<1>10. CASE PackageTimePasses
  BY <1>10 DEF PackageTimePasses, billVars, BillMoves, BillInv, Succeeded
<1> QED
  BY <1>2, <1>3, <1>4, <1>5, <1>6, <1>7, <1>8, <1>9, <1>10, BillSteps, PackageKinds DEF PurchaseOnly

LEMMA ReceivedStep ==
  ASSUME PackageTypeInv, BillInv, ReceivedInv, PackageNext PROVE BillInv' /\ ReceivedInv'
<1>1. BillMoves
  BY NextBill
<1>2. BillInv'
  BY <1>1 DEF BillMoves, BillInv
<1>3. PurchasePaymentReceived' /\ (Succeeded' # {} => received' # {})
  BY <1>1 DEF BillMoves, Covered, ReceivedInv, PurchasePaymentReceived
<1>4. ASSUME NEW u \in Threads, job'[u].pc \in CardSteps PROVE received' # {}
  <2>1. CASE job'[u] = job[u]
    BY <1>1, <1>4, <2>1 DEF ReceivedInv, BillMoves
  <2>2. CASE job'[u] # job[u]
    <3>1. CardSteps \intersect Steps = {} /\ \A j \in Tasks : j.pc \in Steps
      BY DEF Steps, Tasks, CardSteps
    <3>2. On("tgRead", EventId).pc = "tgRead"
      BY DEF On, Task
    <3>3. PICK t, j : t \in Threads /\ Errand(t, j) /\ job'[u] = j
      BY <1>4, <2>2, <3>1, <3>2, PackageTypeStep DEF CardSteps
    <3>4. \E i \in Intents : intents[i] = "succeeded"
      BY <1>4, <3>3 DEF Errand, PackageIntentSucceeded
    <3> QED
      BY <1>1, <3>4 DEF ReceivedInv, BillMoves, Succeeded
  <2> QED
    BY <2>1, <2>2
<1> QED
  BY <1>2, <1>3, <1>4 DEF ReceivedInv

-----------------------------------------------------------------------------
(* Who paid.  As long as the purchase has not been paid for, everything that *)
(* EventBookings promises of a booking of its own holds of the children.     *)

Somebody == bill.paidAt \/ Paid # {}

PurchaseJob(j, paid, somebody, paids) ==
  /\ j.pc = "pkProgress" => paid
  /\ j.pc = "tgCommit" => paid \/ (j.ids # {} /\ j.ids \subseteq paids)
  /\ j.pc = "pdCommit" => somebody

PurchaseInv ==
  /\ ~bill.paidAt => PaidInv
  /\ purchase \in Started => Somebody
  /\ pass["completeFinished"] => Somebody
  /\ \A t \in Threads : PurchaseJob(job[t], bill.paidAt, Somebody, Paid)

(* No step takes a payment back: not even a refund, which leaves paidAt.     *)
PaymentsStay ==
  /\ bill.paidAt => bill'.paidAt
  /\ Paid \subseteq Paid'

LEMMA PackagePaymentsStay ==
  ASSUME PackageTypeInv, BillInv, ReceivedInv, PackageNext PROVE PaymentsStay
<1>1. bill.paidAt => bill'.paidAt
  BY NextBill DEF BillMoves, BillInv
<1>2. CASE ChildNext
  BY <1>1, <1>2, ChildIsNext, PaidStays DEF PaymentsStay, PackageTypeInv
<1>3. CASE BookPackage \/ \E t \in Threads : ChildPaidDeadline(t)
  BY <1>1, <1>3 DEF BookPackage, ChildPaidDeadline, paymentVars, PaymentsStay, Paid
<1>4. CASE PurchaseOnly
  BY <1>1, <1>4, ChildrenUntouched DEF OnlyReads, rowVars, paymentVars, PaymentsStay, Paid
<1>5. ASSUME NEW t \in Threads, Opens(t) \/ Closes(t) \/ Starts(t) \/ Ends(t)
      PROVE  PaymentsStay
  <2>1. ChildrenKeepTheRest
    BY <1>5, OpensRows, ClosesRows, StartsRows, EndsRows DEF PackageTypeInv
  <2> QED
    BY <1>1, <2>1 DEF ChildrenKeepTheRest, paymentVars, PaymentsStay, Paid
<1> QED
  BY <1>2, <1>3, <1>4, <1>5, PackageKinds

LEMMA PurchaseJobGrows ==
  ASSUME PaymentsStay, NEW j, PurchaseJob(j, bill.paidAt, Somebody, Paid)
  PROVE  PurchaseJob(j, bill'.paidAt, Somebody', Paid')
BY DEF PaymentsStay, PurchaseJob, Somebody

(* The tasks: only a payment lets a handler go on to start the children.     *)
LEMMA PurchaseJobsStep ==
  ASSUME PackageTypeInv, BillInv, ReceivedInv, PurchaseInv, PackageNext
  PROVE  \A u \in Threads : PurchaseJob(job'[u], bill'.paidAt, Somebody', Paid')
<1> TAKE u \in Threads
<1>1. PaymentsStay
  BY PackagePaymentsStay
<1>2. CASE job'[u] = job[u]
  BY <1>1, <1>2, PurchaseJobGrows DEF PurchaseInv
<1>3. ASSUME job'[u].pc \notin {"pkProgress", "tgCommit", "pdCommit"}
      PROVE  PurchaseJob(job'[u], bill'.paidAt, Somebody', Paid')
  BY <1>3 DEF PurchaseJob
<1>4. CASE job'[u] \in Tasks \/ job'[u] = On("tgRead", EventId)
  BY <1>3, <1>4 DEF On, Task, Tasks, Steps
<1>5. ASSUME NEW t \in Threads, NEW j, Errand(t, j), job'[u] = j
      PROVE  PurchaseJob(j, bill'.paidAt, Somebody', Paid')
  <2>1. j.pc = "pkProgress" => bill'.paidAt
    <3>1. bill \in Bills
      BY DEF PackageTypeInv, PackageRowsTypeOK
    <3>2. PackageMockPaid(t) => bill'.paidAt
      BY DEF PackageMockPaid, BillWrite, Bill
    <3>3. PackageCashPaid(t) => bill'.paidAt
      BY <3>1 DEF PackageCashPaid, BillWrite, Bills
    <3>4. PackageCardPaid(t) => bill'.paidAt
      BY <3>1 DEF PackageCardPaid, CardWrite, BillWrite, Bills
    <3> QED
      BY <1>5, <3>2, <3>3, <3>4 DEF Errand
  <2>2. j.pc = "tgCommit" => bill.paidAt \/ (j.ids # {} /\ j.ids \subseteq Paid)
    BY <1>5 DEF Errand, ToAdvance, WithStatus, Paid, PurchaseInv, PaidInv, RowsPaid, PaidIsDated
  <2>3. j.pc = "pdCommit" => Somebody
    BY <1>5 DEF Errand, PurchaseInv, Started
  <2> QED
    BY <1>1, <2>1, <2>2, <2>3 DEF PurchaseJob, PaymentsStay, Somebody
<1> QED
  BY <1>2, <1>4, <1>5, PackageTypeStep

LEMMA PackageJobsBacked ==
  ASSUME PackageTypeInv, PaidInv, RowsPaid', Grows, PackageNext, ~ChildNext PROVE PaidInv'
<1>1. ASSUME NEW u \in Threads PROVE JobBacked(job'[u], Paid', Present')
  <2>1. CASE job'[u] = job[u]
    <3>1. JobBacked(job[u], Paid, Present)
      BY JobIsBacked
    <3> QED
      BY <2>1, <3>1, BackedGrows DEF Grows
  <2>2. CASE job'[u] = On("tgRead", EventId)
    BY <2>2, ConstantsAssumption DEF On, Task, JobBacked, Named
  <2>3. ASSUME NEW t \in Threads, NEW j, Errand(t, j), job'[u] = j
        PROVE  JobBacked(j, Paid', Present')
    <3>1. Named(j) \subseteq Present'
      BY <2>3, ConstantsAssumption DEF Errand, Named, ToAdvance, WithStatus, Present, Grows
    <3>2. j.pc \in PackageSteps \union {"idle"}
      BY <2>3 DEF Errand, Idle, Task
    <3> QED
      BY <3>1, <3>2 DEF JobBacked, PackageSteps
  <2> QED
    BY <2>1, <2>2, <2>3, PackageTypeStep
<1> QED
  BY <1>1 DEF PaidInv, JobsBacked

(* While the purchase is unpaid its own steps start no child either.         *)
LEMMA PackageRowsPaid ==
  ASSUME PackageTypeInv, PlacedInv, QuotesInv, PurchaseInv, PackageNext, ~ChildNext, ~bill.paidAt
  PROVE  RowsPaid' /\ Grows
<1>1. PaidInv /\ RowsPaid
  BY DEF PurchaseInv, PaidInv
<1>2. CASE BookPackage
  <2>1. UNCHANGED <<payment, paidAt>> /\ event' = "DRAFT"
    BY <1>2 DEF BookPackage, paymentVars
  <2>2. \A b \in Bookings : status'[b] = "PENDING" /\ deadline'[b] = "future"
    BY <1>2 DEF BookPackage, InsertBookings, WriteAll
  <2> QED
    BY <1>1, <2>1, <2>2, BookingsKeep DEF Started
<1>3. CASE PurchaseOnly
  BY <1>1, <1>3, ChildrenUntouched, ReadsKeep
<1>4. ASSUME NEW t \in Threads, ChildPaidDeadline(t) PROVE RowsPaid' /\ Grows
  <2>1. job[t].b \in Paid
    BY <1>1, <1>4, JobIsBacked DEF ChildPaidDeadline, At, JobBacked
  <2>2. /\ UNCHANGED <<payment, paidAt, status, event>>
        /\ \A b \in Bookings : deadline'[b] = deadline[b] \/ b = job[t].b
    BY <1>4 DEF ChildPaidDeadline, paymentVars, eventVars, PackageTypeInv, TypeInv, RowsTypeOK
  <2> QED
    BY <1>1, <2>1, <2>2, BookingsKeep
<1>5. ASSUME ChildrenKeepTheRest,
             \A b \in Bookings : status'[b] # status[b] =>
               /\ status'[b] # "NONE" /\ b \in Present
               /\ status'[b] \in Started => b \in Paid,
             event' \in Started => event \in Started \/ Paid # {}
      PROVE  RowsPaid' /\ Grows
  BY <1>1, <1>5, BookingsKeep DEF ChildrenKeepTheRest, paymentVars
<1>6. ASSUME NEW t \in Threads, Opens(t) PROVE RowsPaid' /\ Grows
  <2>1. /\ ChildrenKeepTheRest /\ event' = event
        /\ \A b \in Bookings : status'[b] = IF status[b] = "PENDING" THEN "CONFIRMED" ELSE status[b]
    BY <1>6, OpensRows DEF PackageTypeInv
  <2> QED
    BY <1>5, <2>1 DEF Started, Present
<1>7. ASSUME NEW t \in Threads, Closes(t) PROVE RowsPaid' /\ Grows
  <2>1. /\ ChildrenKeepTheRest /\ event' = event
        /\ \A b \in Bookings : status'[b] = status[b] \/ (status'[b] = "CANCELLED" /\ status[b] # "NONE")
    BY <1>7, ClosesRows
  <2> QED
    BY <1>5, <2>1 DEF Started, Present
<1>8. ASSUME NEW t \in Threads, Starts(t) PROVE RowsPaid' /\ Grows
  <2>1. /\ ChildrenKeepTheRest /\ At(t, "tgCommit")
        /\ status' = WriteAll(status, job[t].ids, "IN_PROGRESS")
    BY <1>8, StartsRows DEF PurchaseInv, PurchaseJob, At
  <2>2. job[t].ids # {} /\ job[t].ids \subseteq Paid
    BY <2>1 DEF PurchaseInv, PurchaseJob, At
  <2>3. job[t].ids \subseteq Present
    BY <1>1, <2>2, JobIsBacked DEF JobBacked, Named, Paid
  <2> QED
    BY <1>5, <2>1, <2>2, <2>3 DEF WriteAll, Started
<1>9. ASSUME NEW t \in Threads, Ends(t) PROVE RowsPaid' /\ Grows
  <2>1. /\ ChildrenKeepTheRest
        /\ At(t, "pdCommit") \/ pass["completeFinished"]
        /\ status' = WriteAll(status, WithStatus({"IN_PROGRESS"}), "COMPLETED")
    BY <1>9, EndsRows
  <2>2. Paid # {}
    BY <2>1 DEF PurchaseInv, PurchaseJob, Somebody, At
  <2>3. WithStatus({"IN_PROGRESS"}) \subseteq Paid
    BY <1>1 DEF RowsPaid, PaidGate, WithStatus, Started, Paid
  <2> QED
    BY <1>5, <2>1, <2>2, <2>3 DEF WriteAll, WithStatus, Present
<1> QED
  BY <1>2, <1>3, <1>4, <1>6, <1>7, <1>8, <1>9, PackageKinds

LEMMA PurchaseStep ==
  ASSUME PackageTypeInv, PlacedInv, QuotesInv, BillInv, ReceivedInv, PurchaseInv, PackageNext
  PROVE  PurchaseInv'
<1>1. PaymentsStay
  BY PackagePaymentsStay
<1>2. Somebody => Somebody'
  BY <1>1 DEF PaymentsStay, Somebody
<1>3. ~bill'.paidAt => PaidInv'
  <2> SUFFICES ASSUME ~bill'.paidAt PROVE PaidInv'
    OBVIOUS
  <2>1. ~bill.paidAt /\ PaidInv
    BY <1>1 DEF PaymentsStay, PurchaseInv
  <2>2. CASE ChildNext
    BY <2>1, <2>2, ChildIsNext, NextPaid DEF PackageTypeInv
  <2>3. CASE ~ChildNext
    BY <2>1, <2>3, PackageRowsPaid, PackageJobsBacked
  <2> QED
    BY <2>2, <2>3
<1>4. ASSUME NEW t \in Threads, Starts(t) \/ Ends(t) PROVE Somebody
  <2>1. \/ At(t, "pkProgress") \/ At(t, "tgCommit") \/ At(t, "pdCommit")
        \/ pass["completeFinished"]
    BY <1>4, StartsRows, EndsRows
  <2> QED
    BY <2>1 DEF PurchaseInv, PurchaseJob, Somebody, At
<1>5. \/ purchase' = purchase
      \/ purchase' \notin Started
      \/ \E t \in Threads : Starts(t) \/ Ends(t)
  <2>1. BookPackage => purchase' \notin Started
    BY DEF BookPackage, Started
  <2>2. ChildNext \/ (\E t \in Threads : ChildPaidDeadline(t)) => purchase' = purchase
    BY DEF ChildNext, ChildPaidDeadline, packageVars, purchaseVars
  <2>3. ASSUME NEW t \in Threads, Opens(t) \/ Closes(t) PROVE purchase' \notin Started
    BY <2>3, OpensRows, ClosesRows DEF PackageTypeInv, Closed, Started
  <2> QED
    BY <2>1, <2>2, <2>3, ChildrenUntouched, PackageKinds
<1>6. purchase' \in Started => Somebody'
  BY <1>2, <1>4, <1>5 DEF PurchaseInv
<1>7. pass'["completeFinished"] => pass["completeFinished"] \/ purchase = "IN_PROGRESS"
  <2>1. "completeFinished" \in PackageCrons
    BY DEF PackageCrons
  <2>2. \/ pass' = pass
        \/ \E c \in PackageCrons : Pass(c)
        \/ \E t \in Threads : Closes(t) \/ Ends(t)
    <3>1. ASSUME NEW t \in Threads,
                 \/ PackageReads(t)
                 \/ AcceptCommit(t) /\ AcceptConflicts
          PROVE  pass' = pass
      BY <3>1, CallUntouched DEF AcceptCommit, packageVars
    <3>2. ASSUME NEW t \in Threads, MovesBill(t) PROVE pass' = pass
      BY <3>2, OnlyTheBill
    <3>3. (\E i \in Intents : CustomerPaysPackage(i)) \/ PackageTimePasses => pass' = pass
      BY DEF CustomerPaysPackage, PackageTimePasses
    <3>4. BookPackage \/ ChildNext \/ (\E t \in Threads : ChildPaidDeadline(t)) => pass' = pass
      BY DEF BookPackage, ChildNext, ChildPaidDeadline, packageVars
    <3>5. ASSUME NEW t \in Threads, Opens(t) \/ Starts(t) PROVE pass' = pass
      BY <3>5, OpensRows, StartsRows DEF PackageTypeInv
    <3> QED
      BY <3>1, <3>2, <3>3, <3>4, <3>5, PackageKinds DEF PurchaseOnly
  <2>3. ASSUME NEW c \in PackageCrons, Pass(c)
        PROVE  pass'["completeFinished"] => pass["completeFinished"] \/ purchase = "IN_PROGRESS"
    BY <2>1, <2>3 DEF Pass, Found, Finished, PackageTypeInv, PackageRowsTypeOK
  <2>4. ASSUME NEW t \in Threads, Closes(t) \/ Ends(t)
        PROVE  pass'["completeFinished"] => pass["completeFinished"]
    BY <2>1, <2>4, ClosesRows, EndsRows
  <2> QED
    BY <2>2, <2>3, <2>4
<1>8. pass'["completeFinished"] => Somebody'
  BY <1>2, <1>7 DEF PurchaseInv, Started
<1> QED
  BY <1>3, <1>6, <1>8, PurchaseJobsStep DEF PurchaseInv

-----------------------------------------------------------------------------
(* What still runs when the purchase is off.                                *)

(* The handlers of the purchase keep what is known of the children's own     *)
(* payments: tryProgressPackageBooking has seen those it will start.         *)
LEMMA StartsStep ==
  ASSUME PackageTypeInv, StartsInv, PackageNext PROVE StartsInv'
<1>1. CASE ChildNext
  BY <1>1, ChildStartsPaid DEF PackageTypeInv
<1>2. CASE ~ChildNext
  <2>1. UNCHANGED <<payment, paidAt>>
    <3>1. CASE BookPackage \/ \E t \in Threads : ChildPaidDeadline(t)
      BY <3>1 DEF BookPackage, ChildPaidDeadline, paymentVars
    <3>2. CASE PurchaseOnly
      BY <3>2, ChildrenUntouched DEF OnlyReads, rowVars, paymentVars
    <3>3. ASSUME NEW t \in Threads, Opens(t) \/ Closes(t) \/ Starts(t) \/ Ends(t)
          PROVE  UNCHANGED <<payment, paidAt>>
      <4>1. ChildrenKeepTheRest
        BY <3>3, OpensRows, ClosesRows, StartsRows, EndsRows DEF PackageTypeInv
      <4> QED
        BY <4>1 DEF ChildrenKeepTheRest, paymentVars
    <3> QED
      BY <1>2, <3>1, <3>2, <3>3, PackageKinds
  <2>2. Paid' = Paid /\ PaidIsDated'
    BY <2>1 DEF Paid, StartsInv, PaidIsDated, IsPaid
  <2>3. ASSUME NEW u \in Threads PROVE StartJob(job'[u], Paid)
    <3>1. CASE job'[u] = job[u]
      BY <3>1 DEF StartsInv
    <3>2. CASE job'[u] = On("tgRead", EventId)
      BY <3>2 DEF On, Task, StartJob
    <3>3. ASSUME NEW t \in Threads, NEW j, Errand(t, j), job'[u] = j PROVE StartJob(j, Paid)
      <4>1. j.pc \in PackageSteps \union {"idle"}
        BY <3>3 DEF Errand, Idle, Task
      <4>2. j.ids \subseteq Paid
        BY <3>3 DEF Errand, ToAdvance, WithStatus, StartsInv, PaidIsDated, Paid
      <4> QED
        BY <4>1, <4>2 DEF StartJob, PackageSteps
    <3> QED
      BY <1>2, <3>1, <3>2, <3>3, PackageTypeStep
  <2> QED
    BY <2>2, <2>3 DEF StartsInv
<1> QED
  BY <1>1, <1>2

(* A booking of a purchase that does not run, runs itself only because it was *)
(* quoted or paid for by itself, or because a closing came late.              *)
RunningInv == purchase # "IN_PROGRESS" => Running \subseteq Quoted \union Paid \union overrun

LEMMA RunningStep ==
  ASSUME PackageTypeInv, PlacedInv, QuotesInv, BillInv, ReceivedInv, PurchaseInv, StartsInv,
         RunningInv, PackageNext
  PROVE  RunningInv'
<1>1. Paid \subseteq Paid'
  BY PackagePaymentsStay DEF PaymentsStay
<1>2. CASE BookPackage
  <2>1. Running' = {}
    BY <1>2 DEF BookPackage, InsertBookings, WriteAll, Running
  <2> QED
    BY <2>1 DEF RunningInv
<1>3. CASE ~BookPackage
  <2>1. Quoted \subseteq Quoted'
    BY <1>3, PlacedStep DEF RowsQuoted
  <2>2. ASSUME UNCHANGED <<purchase, overrun>>, Running' \subseteq Running \union Paid
        PROVE  RunningInv'
    BY <1>1, <2>1, <2>2 DEF RunningInv
  <2>3. CASE ChildNext
    <3>1. Running' \subseteq Running \union Paid
      BY <2>3, ChildStartsPaid DEF PackageTypeInv, RowsStart
    <3> QED
      BY <2>2, <2>3, <3>1 DEF ChildNext, packageVars, purchaseVars
  <2>4. CASE PurchaseOnly
    BY <2>2, <2>4, ChildrenUntouched DEF OnlyReads, rowVars, bookingVars, Running
  <2>5. ASSUME NEW t \in Threads, ChildPaidDeadline(t) PROVE RunningInv'
    BY <2>2, <2>5 DEF ChildPaidDeadline, packageVars, purchaseVars, Running
  <2>6. ASSUME NEW t \in Threads, Opens(t) PROVE RunningInv'
    <3>1. /\ bill.status = "NONE" /\ overrun' = overrun
          /\ \A b \in Bookings : status'[b] = IF status[b] = "PENDING" THEN "CONFIRMED" ELSE status[b]
      BY <2>6, OpensRows DEF PackageTypeInv
    <3>2. Running' = Running
      BY <3>1 DEF Running
    <3>3. Running \subseteq Paid
      BY <3>1 DEF BillInv, PurchaseInv, PaidInv, RowsPaid, PaidGate, WithStatus, Started, Running, Paid
    <3> QED
      BY <1>1, <3>2, <3>3 DEF RunningInv
  <2>7. ASSUME NEW t \in Threads, Closes(t) PROVE RunningInv'
    <3>1. \/ Running' = {}
          \/ /\ Running' = Running /\ overrun \subseteq overrun'
             /\ purchase = "IN_PROGRESS" => Running \subseteq overrun'
      BY <2>7, ClosesRows
    <3> QED
      BY <1>1, <2>1, <3>1 DEF RunningInv
  <2>8. ASSUME NEW t \in Threads, Starts(t) PROVE RunningInv'
    BY <2>8, StartsRows DEF RunningInv
  <2>9. ASSUME NEW t \in Threads, Ends(t) PROVE RunningInv'
    <3>1. Running' = {}
      BY <2>9, EndsRows DEF WriteAll, WithStatus, Running
    <3> QED
      BY <3>1 DEF RunningInv
  <2> QED
    BY <1>3, <2>3, <2>4, <2>5, <2>6, <2>7, <2>8, <2>9, PackageKinds
<1> QED
  BY <1>2, <1>3

-----------------------------------------------------------------------------
(* The inductive invariant and what follows from it.                        *)

PackageInv ==
  /\ PackageTypeInv /\ PlacedInv /\ QuotesInv /\ HeldInv /\ StartsInv /\ RunningInv
  /\ BillInv /\ ReceivedInv /\ PurchaseInv

LEMMA InitPackageInv == PackageInit => PackageInv
<1> SUFFICES ASSUME PackageInit PROVE PackageInv
  OBVIOUS
<1>1. PackageTypeInv
  <2>1. TypeInv
    BY InitTypeInv DEF PackageInit
  <2>2. PackageRowsTypeOK
    BY DEF PackageInit, NoBill, Bill, Bills, PackageRowsTypeOK
  <2>3. \A t \in Threads : PackageNote(job[t])
    BY DEF PackageInit, Init, Idle, Task, PackageNote, CardSteps
  <2> QED
    BY <2>1, <2>2, <2>3 DEF PackageTypeInv
<1>2. Blank
  BY DEF PackageInit, Blank
<1>3. PaidInv
  BY InitPaidInv DEF PackageInit
<1>4. \A t \in Threads : job[t].pc = "idle"
  BY DEF PackageInit, Init, Idle, Task
<1>5. QuotesInv /\ HeldInv /\ StartsInv /\ RunningInv
  <2>1. PaidIsDated
    BY <1>3 DEF PaidInv, RowsPaid
  <2>2. QuotesInv /\ HeldInv /\ Running = {}
    BY <1>4 DEF PackageInit, Init, QuotesInv, QuoteJob, WithStatus, HeldInv, Closed, Running
  <2> QED
    BY <1>4, <2>1, <2>2 DEF StartsInv, StartJob, RunningInv
<1>6. ~bill.paidAt /\ paymentExpiresAt = "none" /\ Succeeded = {}
  BY DEF PackageInit, NoBill, Bill, Succeeded
<1>7. BillInv /\ ReceivedInv
  BY <1>4, <1>6 DEF BillInv, ReceivedInv, PurchasePaymentReceived, CardSteps
<1>8. PurchaseInv
  BY <1>3, <1>4, <1>6 DEF PackageInit, PackageCrons, PurchaseInv, PurchaseJob, Started
<1> QED
  BY <1>1, <1>2, <1>5, <1>7, <1>8 DEF PackageInv, PlacedInv

LEMMA PackageUnmoved == PackageInv /\ UNCHANGED pvars => PackageInv'
<1> SUFFICES ASSUME PackageInv, UNCHANGED pvars PROVE PackageInv'
  OBVIOUS
<1>1. OnlyReads /\ job' = job /\ UNCHANGED packageVars
  BY DEF pvars, vars, OnlyReads
<1>2. PackageTypeInv'
  <2>1. RowsTypeOK'
    BY <1>1, ReadsTyped DEF PackageInv, PackageTypeInv
  <2>2. PackageRowsTypeOK'
    BY <1>1 DEF packageVars, purchaseVars, billVars, PackageInv, PackageTypeInv, PackageRowsTypeOK
  <2> QED
    BY <1>1, <2>1, <2>2 DEF PackageInv, PackageTypeInv, TypeInv, TaskOK, NoteOK, PackageNote
<1>3. PaidInv => PaidInv' /\ Paid' = Paid
  BY <1>1, ReadsKeep DEF PaidInv, JobsBacked
<1>4. Paid' = Paid /\ Somebody' = Somebody
  BY <1>1 DEF OnlyReads, rowVars, paymentVars, packageVars, billVars, Paid, Somebody
<1>5. PurchaseInv'
  BY <1>1, <1>3, <1>4 DEF PackageInv, PurchaseInv, PurchaseJob, packageVars, purchaseVars, billVars
<1>6. BillInv' /\ ReceivedInv'
  BY <1>1 DEF PackageInv, BillInv, ReceivedInv, PurchasePaymentReceived, Succeeded, packageVars,
     purchaseVars, billVars
<1>7. StartsInv' /\ RunningInv'
  BY <1>1, <1>4 DEF PackageInv, StartsInv, StartJob, PaidIsDated, IsPaid, RunningInv, Running,
     Quoted, OnlyReads, rowVars, bookingVars, paymentVars, packageVars, purchaseVars
<1>8. QuotesInv' /\ HeldInv' /\ PlacedInv'
  BY <1>1 DEF PackageInv, QuotesInv, QuoteJob, Quoted, WithStatus, HeldInv, Held, Closed,
     PlacedInv, Placed, Blank, Init, Present, OnlyReads, rowVars, bookingVars, eventVars,
     paymentVars, gatewayVars, packageVars, purchaseVars, billVars
<1> QED
  BY <1>2, <1>5, <1>6, <1>7, <1>8 DEF PackageInv

LEMMA PackageInvariant == PackageSpec => []PackageInv
<1>1. PackageInv /\ PackageNext => PackageInv'
  BY PackageTypeStep, PlacedStep, HeldStep, ReceivedStep, PurchaseStep, StartsStep, RunningStep
     DEF PackageInv
<1>2. PackageInv /\ [PackageNext]_pvars => PackageInv'
  BY <1>1, PackageUnmoved
<1> QED
  BY <1>2, InitPackageInv, PTL DEF PackageSpec

(* The rows of a purchase and of its children hold members of their enums,   *)
(* whichever handlers and jobs meet.                                         *)
THEOREM PackageTypeCorrect == PackageSpec => []PackageTypeOK
<1>1. PackageInv => PackageTypeOK
  BY DEF PackageInv, PackageTypeInv, TypeInv, PackageRowsTypeOK, Bills, PackageTypeOK
<1> QED
  BY <1>1, PackageInvariant, PTL

(* A child's service runs or has been delivered only if somebody paid, the   *)
(* child's own payment or the purchase's: no interleaving of markPaid's      *)
(* tail, the owner's decisions, the customer's payments and the jobs starts  *)
(* one without, for any package and however many requests meet.              *)
THEOREM ServicesRunPaid == PackageSpec => []ServiceRunsPaid
<1>1. PackageInv => ServiceRunsPaid
  BY DEF PackageInv, PurchaseInv, PaidInv, RowsPaid, PaidGate, ServiceRunsPaid
<1> QED
  BY <1>1, PackageInvariant, PTL

(* A purchase runs or is over, and its event is on, only after a payment:    *)
(* progressPackageToInProgress, tryProgressPackage, the owner's completion   *)
(* and the jobs that settle from a snapshot never get there without one.     *)
THEOREM PurchaseStartsPaid == PackageSpec => []PurchaseStartIsPaid
<1>1. PackageInv => PurchaseStartIsPaid
  BY DEF PackageInv, PurchaseInv, PaidInv, RowsPaid, EventStartedIsPaid, Somebody, Paid,
     PurchaseStartIsPaid
<1> QED
  BY <1>1, PackageInvariant, PTL

(* The payment of a purchase clears on the owner's word for cash or on the   *)
(* gateway's for a card, whichever method the customer switches to, however  *)
(* many intents are open and through either of the two endpoints that        *)
(* confirm a card; the one exception is the transfer that payPackageBooking  *)
(* takes as paid when it gets no intent.                                     *)
THEOREM PaymentIsReceived == PackageSpec => []PurchasePaymentReceived
<1>1. PackageInv => PurchasePaymentReceived
  BY DEF PackageInv, ReceivedInv
<1> QED
  BY <1>1, PackageInvariant, PTL

(* A purchase that was rejected, cancelled or has expired holds no slot      *)
(* (a child that is asked for, quoted, confirmed or running) but that of a   *)
(* child with a quote of its own, of one that runs because it was paid for   *)
(* by itself, and of one that a cancellation or expiry read before the       *)
(* purchase started left running: nothing else that was under way keeps a    *)
(* slot or gives one back.                                                   *)
THEOREM SlotsAreFreed == PackageSpec => []ClosedPurchaseFreesSlots
<1>1. ASSUME PackageInv, purchase \in Closed, NEW b \in HoldsSlot
      PROVE  quoted[b] \/ (status[b] = "IN_PROGRESS" /\ (paidAt[b] \/ b \in overrun))
  <2>1. b \in Bookings /\ status[b] \in {"PENDING", "QUOTE_SENT", "CONFIRMED", "IN_PROGRESS"}
    BY <1>1 DEF HoldsSlot, WithStatus, PENDING_STATUSES
  <2>2. CASE status[b] \in {"PENDING", "CONFIRMED"}
    BY <1>1, <2>1, <2>2 DEF PackageInv, HeldInv, Held, WithStatus, Quoted
  <2>3. CASE status[b] = "QUOTE_SENT"
    BY <1>1, <2>1, <2>3 DEF PackageInv, QuotesInv, WithStatus, Quoted
  <2>4. CASE status[b] = "IN_PROGRESS"
    BY <1>1, <2>1, <2>4 DEF PackageInv, RunningInv, Closed, Running, Quoted, Paid
  <2> QED
    BY <2>1, <2>2, <2>3, <2>4
<1>2. PackageInv => ClosedPurchaseFreesSlots
  BY <1>1 DEF ClosedPurchaseFreesSlots, Closed
<1> QED
  BY <1>2, PackageInvariant, PTL

(* The payment window of a purchase opens once: a second acceptPackageBooking *)
(* that passed the check before the first one committed finds the payment    *)
(* there and does not reopen a window that has passed.                       *)
THEOREM WindowOpensOnce == PackageSpec => OnePaymentWindow
<1>1. PackageInv /\ [PackageNext]_pvars => [paymentExpiresAt = "passed" => paymentExpiresAt' = "passed"]_pvars
  <2> SUFFICES ASSUME PackageInv, [PackageNext]_pvars, paymentExpiresAt = "passed"
               PROVE  paymentExpiresAt' = "passed"
    OBVIOUS
  <2>1. CASE PackageNext
    BY <2>1, NextBill DEF PackageInv, BillMoves, BillInv
  <2>2. CASE UNCHANGED pvars
    BY <2>2 DEF pvars, packageVars, purchaseVars
  <2> QED
    BY <2>1, <2>2
<1> QED
  BY <1>1, PackageInvariant, PTL DEF PackageSpec, OnePaymentWindow
-----------------------------------------------------------------------------
(* PackageBookings implements PurchaseGate: every step of a handler or job   *)
(* is a step of the gate, or leaves it as it is.                             *)

Runs        == purchase \in Started \/ event \in Started
PromiseStep == [Promise!Next]_(Promise!vars)

LEMMA PromiseClears ==
  ASSUME bill.paidAt \in BOOLEAN, PaymentsStay, bill'.paidAt \in BOOLEAN,
         acceptedAt' = acceptedAt, Runs' = Runs
  PROVE  PromiseStep
<1>1. PICK S \in SUBSET Bookings : Paid' = Paid \union S
  BY DEF PaymentsStay, Paid
<1>2. Promise!ClearPayments(S)
  BY <1>1 DEF Promise!ClearPayments, PaymentsStay, Paid, Runs
<1> QED
  BY <1>1, <1>2 DEF PromiseStep, Promise!Next

LEMMA PromiseStarts ==
  ASSUME NEW S \in SUBSET Bookings, bill.paidAt \/ S \subseteq Paid, Somebody,
         Accepted' = Accepted \union S, paidAt' = paidAt, bill'.paidAt = bill.paidAt,
         Runs => Runs'
  PROVE  PromiseStep
<1>1. Promise!StartServices(S)
  BY DEF Promise!StartServices, Promise!Somebody, Promise!Covered, Somebody, Paid, Accepted, Runs
<1> QED
  BY <1>1 DEF PromiseStep, Promise!Next

LEMMA PromiseSwitches ==
  ASSUME UNCHANGED <<acceptedAt, paidAt>>, bill'.paidAt = bill.paidAt, Runs' => Somebody
  PROVE  PromiseStep
BY DEF PromiseStep, Promise!Next, Promise!SwitchPurchase, Promise!Somebody, Somebody, Paid, Runs

(* A step of a child pays, starts services, or does neither.                 *)
LEMMA ChildMoves ==
  ASSUME ChildNext
  PROVE  \/ UNCHANGED <<acceptedAt, paidAt>>
         \/ \E t \in Threads : BulkCommit(t) \/ MarkPaidWrite(t)
         \/ \E t \in Threads : TryProgressEventCommit(t) \/ ProgressCommit(t)
<1>1. CASE \/ \E b \in Bookings : CustomerPaysIntent(b) \/ DeadlinePasses(b)
           \/ EventTimePasses
  BY <1>1 DEF CustomerPaysIntent, DeadlinePasses, EventTimePasses, bookingVars, paymentVars
<1>2. ASSUME NEW t \in Threads, Call(t) \/ CronPass(t) \/ Fail(t)
      PROVE  UNCHANGED <<acceptedAt, paidAt>>
  BY <1>2, ReadsQuiet DEF Call, AddServiceToEvent, CancelEvent, SendQuote, RejectBooking,
     CompleteBooking, ConfirmQuote, RejectQuote, CreatePayment, ConfirmPayment, MarkCashPaid,
     RefundPayment, BulkQuoteDecision, CronPass, HandleExpiredBookings, CompletePastEvents, Fail
<1>3. ASSUME NEW t \in Threads, Advance(t), ~BulkCommit(t), ~MarkPaidWrite(t),
             ~TryProgressEventCommit(t), ~ProgressCommit(t)
      PROVE  UNCHANGED <<acceptedAt, paidAt>>
  BY <1>3, ReadsQuiet DEF Advance, AddServiceCommit, InsertBookings, CancelEventRead,
     CancelEventCommit, SendQuoteCommit, RejectBookingWrite, CompleteBookingWrite, ProviderWrite,
     ConfirmQuoteWrite, CreateIfRequired, TryProgressEventRead, TryProgressEventPaid,
     RejectQuoteSiblings, RejectQuoteCommit, BulkConflict, ProgressBookingRead,
     ProgressEventRead, CreatePaymentRow, GatewayCreateIntent, IntentRowWrite,
     ProcessElectronicPayment, GatewayCharge, GatewayVerifyIntent, PaymentFailedWrite,
     PaymentWrite, MarkPaidDeadline, RefundPaymentWrite, ExpireBooking, PastCancelUndecided,
     PastCompleteRunning, PastWrite, PastCompleteEvent, bookingVars, paymentVars
<1> QED
  BY <1>1, <1>2, <1>3 DEF ChildNext

(* A payment of a child puts nothing on or off: an order of the bulk         *)
(* decision that pays for something leaves something confirmed.              *)
LEMMA ChildPays ==
  ASSUME PackageInv, PackageNext, Placed, NEW t \in Threads, BulkCommit(t) \/ MarkPaidWrite(t)
  PROVE  acceptedAt' = acceptedAt /\ (event' = event \/ paidAt' = paidAt)
<1>1. CASE MarkPaidWrite(t)
  BY <1>1 DEF MarkPaidWrite, bookingVars, eventVars
<1>2. CASE BulkCommit(t)
  <2> DEFINE accepted == job[t].ids
  <2>1. acceptedAt' = acceptedAt
    BY <1>2 DEF BulkCommit
  <2>2. accepted \subseteq Bookings /\ accepted \intersect job[t].rest = {}
    BY <1>2, JobTyped DEF PackageInv, PackageTypeInv, BulkCommit, At, QuotesInv, QuoteJob
  <2>3. ASSUME NEW b \in accepted PROVE event' = event
    <3>1. b \in Present /\ b \notin job[t].rest
      BY <2>2 DEF Placed
    <3>2. status'[b] = "CONFIRMED"
      BY <1>2, <2>2, <3>1 DEF BulkCommit, WriteAll
    <3> QED
      BY <1>2, <3>1, <3>2 DEF BulkCommit
  <2>4. accepted = {} => paidAt' = paidAt
    BY <1>2 DEF BulkCommit, WriteAll, PackageInv, PackageTypeInv, TypeInv, RowsTypeOK
  <2> QED
    BY <2>1, <2>3, <2>4
<1> QED
  BY <1>1, <1>2

(* The services a child's handler starts are covered.                        *)
LEMMA ChildStarts ==
  ASSUME PackageInv, NEW t \in Threads, TryProgressEventCommit(t) \/ ProgressCommit(t)
  PROVE  /\ paidAt' = paidAt /\ event' \in {event, "IN_PROGRESS"} /\ Somebody
         /\ \E S \in SUBSET Bookings :
              Accepted' = Accepted \union S /\ (bill.paidAt \/ S \subseteq Paid)
<1>1. TypeInv /\ job[t].ids \subseteq Bookings /\ NoteOK(job[t])
  BY JobTyped DEF PackageInv, PackageTypeInv
<1>2. bill.paidAt \/ JobBacked(job[t], Paid, Present)
  BY JobIsBacked DEF PackageInv, PurchaseInv
<1>3. CASE TryProgressEventCommit(t)
  <2> DEFINE S == job[t].ids
  <2>1. S \subseteq Bookings
    BY <1>1
  <2>2. bill.paidAt \/ (S # {} /\ S \subseteq Paid)
    BY <1>2, <1>3 DEF TryProgressEventCommit, At, JobBacked
  <2>3. acceptedAt' = [b \in Bookings |-> IF b \in S THEN TRUE ELSE acceptedAt[b]]
    BY <1>3 DEF TryProgressEventCommit, WriteAll
  <2>4. Accepted' = Accepted \union S
    BY <2>1, <2>3, Zenon DEF Accepted
  <2>5. paidAt' = paidAt /\ event' \in {event, "IN_PROGRESS"}
    BY <1>3 DEF TryProgressEventCommit, paymentVars
  <2> HIDE DEF S
  <2> QED
    BY <2>1, <2>2, <2>4, <2>5 DEF Somebody
<1>4. CASE ProgressCommit(t)
  <2> DEFINE b == job[t].b
  <2>1. b \in Bookings
    BY <1>1, <1>4 DEF ProgressCommit, At, NoteOK, OneBookingSteps
  <2>2. bill.paidAt \/ b \in Paid
    BY <1>2, <1>4 DEF ProgressCommit, At, JobBacked
  <2>3. acceptedAt' = [acceptedAt EXCEPT ![b] = TRUE] /\ acceptedAt \in [Bookings -> BOOLEAN]
    BY <1>1, <1>4 DEF ProgressCommit, TypeInv, RowsTypeOK
  <2>4. Accepted' = Accepted \union {b}
    BY <2>1, <2>3 DEF Accepted
  <2>5. paidAt' = paidAt /\ event' \in {event, "IN_PROGRESS"}
    BY <1>4 DEF ProgressCommit, paymentVars
  <2> HIDE DEF b
  <2>6. {b} \in SUBSET Bookings /\ (bill.paidAt \/ {b} \subseteq Paid) /\ Somebody
    BY <2>1, <2>2 DEF Somebody
  <2> QED
    BY <2>4, <2>5, <2>6
<1> QED
  BY <1>3, <1>4

(* The services the purchase starts are covered: by its own payment, or each *)
(* by its own.                                                               *)
LEMMA PurchaseStarts ==
  ASSUME PackageInv, NEW t \in Threads, Starts(t)
  PROVE  /\ Somebody
         /\ \E S \in SUBSET Bookings :
              Accepted' = Accepted \union S /\ (bill.paidAt \/ S \subseteq Paid)
<1>1. PICK S \in SUBSET Bookings :
        /\ acceptedAt' = WriteAll(acceptedAt, S, TRUE)
        /\ At(t, "pkProgress") \/ (At(t, "tgCommit") /\ S = job[t].ids)
  <2>1. WithStatus({"CONFIRMED"}) \in SUBSET Bookings
    BY DEF WithStatus
  <2>2. job[t].ids \in SUBSET Bookings
    BY JobTyped DEF PackageInv, PackageTypeInv
  <2> QED
    BY <2>1, <2>2 DEF Starts, ProgressPackageToInProgress, TryProgressPackageCommit, Advanced
<1>2. bill.paidAt \/ (S # {} /\ S \subseteq Paid)
  BY <1>1 DEF PackageInv, PurchaseInv, PurchaseJob, At
<1>3. acceptedAt' = [b \in Bookings |-> IF b \in S THEN TRUE ELSE acceptedAt[b]]
  BY <1>1 DEF WriteAll
<1>4. Accepted' = Accepted \union S
  BY <1>3, Zenon DEF Accepted
<1> QED
  BY <1>2, <1>4 DEF Somebody

LEMMA NextPromise == ASSUME PackageInv, PackageInv', PackageNext PROVE PromiseStep
<1>1. PaymentsStay
  BY PackagePaymentsStay DEF PackageInv
<1>2. bill.paidAt \in BOOLEAN /\ bill'.paidAt \in BOOLEAN
  BY DEF PackageInv, PackageTypeInv, PackageRowsTypeOK, Bills
<1>3. ASSUME UNCHANGED <<acceptedAt, paidAt>>, bill'.paidAt = bill.paidAt PROVE PromiseStep
  <2>1. Somebody' = Somebody
    BY <1>3 DEF Somebody, Paid
  <2>2. Runs' => Somebody'
    BY DEF PackageInv, PurchaseInv, PaidInv, RowsPaid, EventStartedIsPaid, Runs, Somebody, Paid
  <2> QED
    BY <1>3, <2>1, <2>2, PromiseSwitches
<1>4. CASE ChildNext
  <2>1. UNCHANGED <<purchase, bill>>
    BY <1>4 DEF ChildNext, packageVars, purchaseVars, billVars
  <2>2. CASE UNCHANGED <<acceptedAt, paidAt>>
    BY <1>3, <2>1, <2>2
  <2>3. ASSUME NEW t \in Threads, BulkCommit(t) \/ MarkPaidWrite(t) PROVE PromiseStep
    <3>1. Placed
      <4>1. job[t].pc # "idle"
        BY <2>3 DEF BulkCommit, MarkPaidWrite, At
      <4>2. ~Blank
        BY <4>1 DEF Blank, Init, Idle, Task
      <4> QED
        BY <4>2 DEF PackageInv, PlacedInv
    <3>2. acceptedAt' = acceptedAt /\ (event' = event \/ paidAt' = paidAt)
      BY <2>3, <3>1, ChildPays
    <3>3. CASE paidAt' = paidAt
      BY <1>3, <2>1, <3>2, <3>3
    <3>4. CASE event' = event
      BY <1>1, <1>2, <2>1, <3>2, <3>4, PromiseClears DEF Runs
    <3> QED
      BY <3>2, <3>3, <3>4
  <2>4. ASSUME NEW t \in Threads, TryProgressEventCommit(t) \/ ProgressCommit(t)
        PROVE  PromiseStep
    <3>1. /\ paidAt' = paidAt /\ event' \in {event, "IN_PROGRESS"} /\ Somebody
          /\ \E S \in SUBSET Bookings :
               Accepted' = Accepted \union S /\ (bill.paidAt \/ S \subseteq Paid)
      BY <2>4, ChildStarts
    <3>2. Runs => Runs'
      BY <2>1, <3>1 DEF Runs, Started
    <3> QED
      BY <2>1, <3>1, <3>2, PromiseStarts
  <2> QED
    BY <1>4, <2>2, <2>3, <2>4, ChildMoves
<1>5. CASE BookPackage \/ \E t \in Threads : ChildPaidDeadline(t)
  <2>1. UNCHANGED <<acceptedAt, paidAt, bill>>
    BY <1>5 DEF BookPackage, InsertBookings, ChildPaidDeadline, paymentVars, packageVars, billVars
  <2> QED
    BY <1>3, <2>1
<1>6. CASE PurchaseOnly
  <2>1. UNCHANGED <<acceptedAt, purchase, event>>
    BY <1>6, ChildrenUntouched, ReadsQuiet
  <2> QED
    BY <1>1, <1>2, <2>1, PromiseClears DEF Runs
<1>7. ASSUME NEW t \in Threads, Opens(t) PROVE PromiseStep
  <2>1. /\ ChildrenKeepTheRest /\ bill.status = "NONE"
        /\ bill' = Bill("PENDING", "CASH", "none", FALSE)
    BY <1>7, OpensRows DEF PackageInv, PackageTypeInv
  <2>2. bill'.paidAt = bill.paidAt
    BY <1>2, <2>1 DEF PackageInv, BillInv, Bill
  <2>3. acceptedAt' = acceptedAt
    BY <1>7 DEF Opens, AcceptCommit
  <2> QED
    BY <1>3, <2>1, <2>2, <2>3 DEF ChildrenKeepTheRest, paymentVars
<1>8. ASSUME NEW t \in Threads, Closes(t) \/ Ends(t) PROVE PromiseStep
  <2>1. ChildrenKeepTheRest /\ bill'.paidAt = bill.paidAt
    BY <1>8, ClosesRows, EndsRows DEF PackageInv, billVars
  <2>2. acceptedAt' = acceptedAt
    BY <1>8 DEF Closes, RejectCommit, CancelPackageCommit, ExpirePending, ExpireUnpaid, Ends,
       CompletePackageCommit, CompleteFinished, Complete
  <2> QED
    BY <1>3, <2>1, <2>2 DEF ChildrenKeepTheRest, paymentVars
<1>9. ASSUME NEW t \in Threads, Starts(t) PROVE PromiseStep
  <2>1. /\ paidAt' = paidAt /\ bill' = bill /\ purchase' = "IN_PROGRESS"
    BY <1>9, StartsRows DEF ChildrenKeepTheRest, paymentVars, billVars
  <2>2. Runs'
    BY <2>1 DEF Runs, Started
  <2> QED
    BY <1>9, <2>1, <2>2, PurchaseStarts, PromiseStarts
<1> QED
  BY <1>4, <1>5, <1>6, <1>7, <1>8, <1>9, PackageKinds

LEMMA InitPromise == PackageInit => Promise!Init
BY DEF PackageInit, Init, NoBill, Bill, Promise!Init, Started

(* Every endpoint and job of a purchase keeps what PurchaseGate promises,    *)
(* for any package and however many of them meet: no service is started that *)
(* is not covered when it is started, the purchase and its event are put on  *)
(* only after a payment, and no payment that cleared is taken back.          *)
THEOREM ImplementsPurchase == PackageSpec => ImplementsPurchaseGate
<1>1. PackageInv /\ PackageInv' /\ [PackageNext]_pvars => [Promise!Next]_(Promise!vars)
  <2> SUFFICES ASSUME PackageInv, PackageInv', [PackageNext]_pvars
               PROVE  [Promise!Next]_(Promise!vars)
    OBVIOUS
  <2>1. CASE PackageNext
    BY <2>1, NextPromise DEF PromiseStep
  <2>2. CASE UNCHANGED pvars
    BY <2>2 DEF pvars, vars, rowVars, bookingVars, eventVars, paymentVars, packageVars,
       purchaseVars, billVars, Promise!vars
  <2> QED
    BY <2>1, <2>2
<1> QED
  BY <1>1, InitPromise, PackageInvariant, PTL
     DEF PackageSpec, ImplementsPurchaseGate, Promise!Spec
=============================================================================
