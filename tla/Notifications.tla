---------------------------- MODULE Notifications ----------------------------
(***************************************************************************)
(* From a domain event to a phone: DomainEventBus, NotificationsListener,  *)
(* NotificationsService, DeviceTokenService, NotificationDispatcher and    *)
(* FirebaseService, for one user.                                          *)
(*                                                                         *)
(* Every event is handled after its emitter went on, so the deliveries     *)
(* interleave with each other and with the user, who logs in and out on    *)
(* several devices meanwhile.                                              *)
(***************************************************************************)
EXTENDS Integers, Sequences, FiniteSets, TLC

CONSTANTS
  Deliveries,  \* the deliveries begun, in all (a bound of the model)
  Devices,     \* device tokens
  Occurring    \* the events emitted here, of those the bus can emit

-----------------------------------------------------------------------------
(* The listener: for each event, the types its notification can have.  Most *)
(* have the name of the event.                                              *)
Named(events) == [e \in events |-> {e}]

AccountNotices ==
     "USER_VERIFIED"  :> {"ACCOUNT_VERIFIED"}
  @@ "USER_BLOCKED"   :> {"ACCOUNT_BLOCKED"}
  @@ "USER_UNBLOCKED" :> {"ACCOUNT_UNBLOCKED"}

BookingNotices ==
  "BOOKING_ACCEPTED" :> {"BOOKING_ACCEPTED", "BOOKING_QUOTE_CONFIRMED"}
  @@ Named({"BOOKING_CREATED", "BOOKING_QUOTE_SENT", "BOOKING_REJECTED",
            "BOOKING_COMPLETED", "BOOKING_CANCELLED"})

EventNotices    == Named({"EVENT_CANCELLED"})
ProviderNotices == Named({"PROVIDER_APPROVED", "PROVIDER_REJECTED", "PROVIDER_REGISTERED"})
ServiceNotices  == Named({"SERVICE_APPROVED", "SERVICE_REJECTED"})

MembershipNotices == Named(
  {"PACKAGE_JOIN_REQUESTED", "PACKAGE_ACTIVATED", "PACKAGE_JOIN_ACCEPTED",
   "PACKAGE_JOIN_REJECTED", "PACKAGE_PARTNER_LEFT"})

PurchaseNotices == Named(
  {"PACKAGE_BOOKING_REQUESTED", "PACKAGE_BOOKING_ACCEPTED", "PACKAGE_BOOKING_REJECTED",
   "PACKAGE_PAYMENT_CASH_CHOSEN", "PACKAGE_PAYMENT_CONFIRMED"})

PackageCronNotices == Named(
  {"PACKAGE_JOIN_EXPIRED", "PACKAGE_BOOKING_EXPIRED", "PACKAGE_PAYMENT_EXPIRED",
   "PACKAGE_CANCELLED"})

AfterSalesNotices == Named(
  {"DISCOUNT_CANCELLED", "REVIEW_REPLIED", "COMPLAINT_STATUS_CHANGED", "COMPLAINT_REPLIED",
   "DELIVERY_OUT_FOR_DELIVERY", "DELIVERY_COMPLETED", "DELIVERY_FAILED"})

PaymentNotices == Named({"PAYMENT_CONFIRMED", "PAYMENT_FAILED"})

TypesOf ==
  AccountNotices @@ BookingNotices @@ EventNotices @@ ProviderNotices @@ ServiceNotices
  @@ MembershipNotices @@ PurchaseNotices @@ PackageCronNotices @@ AfterSalesNotices
  @@ PaymentNotices

(* The methods of the bus. *)
Emittable ==
  {"USER_VERIFIED", "USER_BLOCKED", "USER_UNBLOCKED",
   "BOOKING_CREATED", "BOOKING_QUOTE_SENT", "BOOKING_ACCEPTED", "BOOKING_REJECTED",
   "BOOKING_COMPLETED", "BOOKING_CANCELLED", "EVENT_CANCELLED",
   "PROVIDER_APPROVED", "PROVIDER_REJECTED", "PROVIDER_REGISTERED",
   "SERVICE_APPROVED", "SERVICE_REJECTED", "PAYMENT_CONFIRMED", "PAYMENT_FAILED",
   "PACKAGE_JOIN_REQUESTED", "PACKAGE_ACTIVATED", "PACKAGE_JOIN_ACCEPTED",
   "PACKAGE_JOIN_REJECTED", "PACKAGE_PARTNER_LEFT", "PACKAGE_BOOKING_REQUESTED",
   "PACKAGE_BOOKING_ACCEPTED", "PACKAGE_BOOKING_REJECTED", "PACKAGE_PAYMENT_CASH_CHOSEN",
   "PACKAGE_PAYMENT_CONFIRMED", "PACKAGE_JOIN_EXPIRED", "PACKAGE_BOOKING_EXPIRED",
   "PACKAGE_PAYMENT_EXPIRED", "PACKAGE_CANCELLED", "DISCOUNT_CANCELLED", "REVIEW_REPLIED",
   "COMPLAINT_STATUS_CHANGED", "COMPLAINT_REPLIED", "DELIVERY_OUT_FOR_DELIVERY",
   "DELIVERY_COMPLETED", "DELIVERY_FAILED"}

(* NotificationType of the schema: what a row can hold.                     *)
NotificationType ==
  {"OTP_SENT", "PASSWORD_CHANGED", "PASSWORD_RESET", "ACCOUNT_BLOCKED", "ACCOUNT_UNBLOCKED",
   "ACCOUNT_VERIFIED", "LOGIN_ALERT", "ADMIN_NEW_PROVIDER_REQUEST", "BOOKING_QUOTE_CONFIRMED",
   "GENERAL", "PACKAGE_BOOKING_PAYMENT_EXPIRED"}
  \union (Emittable \ {"USER_VERIFIED", "USER_BLOCKED", "USER_UNBLOCKED"})

(* Every event the bus can emit has a handler, and every handler stores a   *)
(* type the database knows.                                                 *)
ASSUME EveryEventHandled ==
  /\ Emittable \subseteq DOMAIN TypesOf
  /\ \A e \in DOMAIN TypesOf : TypesOf[e] \subseteq NotificationType
  /\ Occurring \subseteq Emittable

-----------------------------------------------------------------------------
VARIABLES
  note,       \* per delivery, its row: type, deliveryStatus, isRead
  work,       \* per delivery, where createAndDeliver is and what it holds
  devices,    \* the rows of DeviceToken, the latest updated first
  dead        \* the tokens Firebase no longer knows

noticeVars == <<note, work, devices, dead>>

NoNote == [type |-> "none", status |-> "none", read |-> FALSE]
NoWork == [at |-> "none", sent |-> <<>>, success |-> FALSE, failed |-> {}]

NotificationsInit ==
  /\ note    = [d \in Deliveries |-> NoNote]
  /\ work    = [d \in Deliveries |-> NoWork]
  /\ devices = <<>>
  /\ dead    = {}

Registered  == {devices[i] : i \in DOMAIN devices}
Goes(d, at) == work' = [work EXCEPT ![d].at = at]
Ends(d, at) == work' = [work EXCEPT ![d] = [NoWork EXCEPT !.at = at]]

(* The rows that are left without some tokens, in the order they had.       *)
Kept(ts)     == {i \in DOMAIN devices : devices[i] \notin ts}
Place(i, ts) == Cardinality({j \in Kept(ts) : j <= i})
Drop(ts)     == [n \in 1 .. Cardinality(Kept(ts)) |->
                  devices[CHOOSE i \in Kept(ts) : Place(i, ts) = n]]

(* The listener calls deliver, updatePackage calls createAndDeliver itself. *)
Emit(d) ==
  /\ work[d].at = "none"
  /\ \E e \in Occurring : \E type \in TypesOf[e] : note' = [note EXCEPT ![d].type = type]
  /\ Goes(d, "create")
  /\ UNCHANGED <<devices, dead>>

CreateRow(d) ==
  /\ work[d].at = "create"
  /\ note' = [note EXCEPT ![d].status = "PENDING"]
  /\ Goes(d, "readTokens")
  /\ UNCHANGED <<devices, dead>>

(* The database refuses the row: nothing is left of the notification.       *)
CreateFails(d) ==
  /\ work[d].at = "create"
  /\ Ends(d, "done")
  /\ UNCHANGED <<note, devices, dead>>

GetUserTokens(d) ==
  /\ work[d].at = "readTokens"
  /\ work' = [work EXCEPT ![d].at = "dispatch", ![d].sent = devices]
  /\ UNCHANGED <<note, devices, dead>>

(* Mutant: the responses are counted from one. *)
NextToInvalid(ts) == {ts[i] : i \in {j \in DOMAIN ts : j > 1 /\ ts[j - 1] \in dead}}

(* The response of a multicast at position i is about the i-th token sent.  *)
InvalidOf(ts) == {ts[i] : i \in {j \in DOMAIN ts : ts[j] \in dead}}

(* Without Firebase, after an error of it, and when the only token of the   *)
(* user is dead: no success, and no token is reported.  Without a token:    *)
(* success.  With several, a multicast succeeds whatever each response is.  *)
Dispatch(d) ==
  LET ts == work[d].sent
      Result(success, failed) ==
        work' = [work EXCEPT ![d] =
          [at |-> "writeStatus", sent |-> <<>>, success |-> success, failed |-> failed]]
  IN /\ work[d].at = "dispatch"
     /\ \/ Result(FALSE, {})
        \/ Len(ts) <= 1 /\ ts \notin {<<t>> : t \in dead} /\ Result(TRUE, {})
        \/ Len(ts) > 1 /\ Result(TRUE, InvalidOf(ts))
     /\ UNCHANGED <<note, devices, dead>>

WriteStatus(d) ==
  /\ work[d].at = "writeStatus"
  /\ note' = [note EXCEPT ![d].status = IF work[d].success THEN "SENT" ELSE "FAILED"]
  /\ IF work[d].failed = {} THEN Ends(d, "done") ELSE Goes(d, "clean")
  /\ UNCHANGED <<devices, dead>>

RemoveInvalidTokens(d) ==
  /\ work[d].at = "clean"
  /\ devices' = Drop(work[d].failed)
  /\ Ends(d, "done")
  /\ UNCHANGED <<note, dead>>

(* Mutant: the error is logged and the row is left as it is. *)
LogsOnly(at) == "done"

(* An error of the database while delivering is caught. *)
Caught(at) == "markFailed"

DeliveryFails(d) ==
  /\ work[d].at \in {"readTokens", "writeStatus", "clean"}
  /\ Ends(d, Caught(work[d].at))
  /\ UNCHANGED <<note, devices, dead>>

MarkFailed(d) ==
  /\ work[d].at = "markFailed"
  /\ note' = [note EXCEPT ![d].status = "FAILED"]
  /\ Ends(d, "done")
  /\ UNCHANGED <<devices, dead>>

(* A second error is ignored; a crash loses what was under way.             *)
Lost(d) ==
  /\ work[d].at \notin {"none", "done", "lost"}
  /\ Ends(d, "lost")
  /\ UNCHANGED <<note, devices, dead>>

MarkAsRead(d) ==
  /\ note[d].status # "none"
  /\ note' = [note EXCEPT ![d].read = TRUE]
  /\ UNCHANGED <<work, devices, dead>>

MarkAllAsRead ==
  /\ note' = [d \in Deliveries |->
               [note[d] EXCEPT !.read = note[d].read \/ note[d].status # "none"]]
  /\ UNCHANGED <<work, devices, dead>>

-----------------------------------------------------------------------------
(* Mutant: a row is created each time the app sends its token. *)
AlwaysCreated(t) == <<t>> \o devices

(* An upsert: a token saved again is the latest. *)
Upserted(t) == <<t>> \o Drop({t})

SaveToken(t) ==
  /\ devices' = Upserted(t)
  /\ UNCHANGED <<note, work, dead>>

RemoveToken(t) ==
  /\ devices' = Drop({t})
  /\ UNCHANGED <<note, work, dead>>

RemoveAllTokens ==
  /\ devices' = <<>>
  /\ UNCHANGED <<note, work, dead>>

(* The app is uninstalled; Firebase forgets the token. *)
TokenDies(t) ==
  /\ dead' = dead \union {t}
  /\ UNCHANGED <<note, work, devices>>

DeliverySteps(d) ==
  \/ CreateRow(d) \/ GetUserTokens(d) \/ Dispatch(d)
  \/ WriteStatus(d) \/ RemoveInvalidTokens(d) \/ MarkFailed(d)

NotificationsNext ==
  \/ \E d \in Deliveries :
       \/ Emit(d) \/ DeliverySteps(d) \/ CreateFails(d) \/ DeliveryFails(d)
       \/ Lost(d) \/ MarkAsRead(d)
  \/ \E t \in Devices : SaveToken(t) \/ RemoveToken(t) \/ TokenDies(t)
  \/ MarkAllAsRead
  \/ RemoveAllTokens

-----------------------------------------------------------------------------
NotificationsTypeOK ==
  /\ \A d \in Deliveries :
       /\ note[d].type \in NotificationType \union {"none"}
       /\ note[d].status \in {"none", "PENDING", "SENT", "FAILED"}
       /\ note[d].read => note[d].status # "none"
       /\ work[d].failed \subseteq Devices
  /\ Registered \subseteq Devices
  /\ \A i, j \in DOMAIN devices : devices[i] = devices[j] => i = j

(* A device that Firebase still knows is forgotten only when the user logs  *)
(* out of it: the cleaning after a push, which works with tokens read some  *)
(* steps earlier, takes dead tokens only.                                   *)
LiveDevicesStay ==
  [][\A t \in Registered \ dead :
       t \in Registered' \/ RemoveToken(t) \/ RemoveAllTokens]_noticeVars

(* A notification does not stay PENDING, unless a crash or a second error   *)
(* of the database stops its delivery.                                      *)
NotificationsSettle ==
  \A d \in Deliveries :
    (note[d].status = "PENDING") ~> (note[d].status \in {"SENT", "FAILED"} \/ work[d].at = "lost")
=============================================================================
