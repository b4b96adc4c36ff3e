------------------------------ MODULE AfterSales ------------------------------
(***************************************************************************)
(* What follows a booking: its delivery, a complaint, the reviews of a     *)
(* service, and the list of service types with its cache: DeliveryService, *)
(* ComplaintsService, ReviewsService and the types part of                 *)
(* ServicesService.                                                        *)
(*                                                                         *)
(* Every update reads a row, checks it and then writes it whatever it has  *)
(* become: a handler is a worker that remembers what it read.              *)
(***************************************************************************)
EXTENDS FiniteSets, Integers

CONSTANTS
  Handlers,    \* requests served at a time
  Reviewed,    \* completed bookings of one service
  Versions     \* the contents of the table of service types, in order 0..

ASSUME AfterSalesAssumption == Versions \subseteq Nat /\ 0 \in Versions

VARIABLES
  delivery,    \* status, deliveredAt set, the statuses it has had
  complaint,   \* the same, with resolvedAt; "none" before it is filed
  reviews,     \* the bookings with a row of Review
  replied,     \* of them, those with a providerReply
  rated,       \* Service.totalReviews
  types,       \* the version of the table ServiceType
  cached,      \* the version under service-types in Redis, or -1
  fills,       \* per handler, the version it read and is about to cache, or -1
  job          \* per handler: what it is about to write

deskVars == <<delivery, complaint, reviews, replied, rated, types, cached, fills, job>>

Idle == [kind |-> "idle"]

AfterSalesInit ==
  /\ delivery  = [status |-> "SCHEDULED", stamped |-> FALSE, had |-> {"SCHEDULED"}]
  /\ complaint = [status |-> "none", stamped |-> FALSE, had |-> {}]
  /\ reviews   = {}
  /\ replied   = {}
  /\ rated     = 0
  /\ types     = 0
  /\ cached    = -1
  /\ fills     = [h \in Handlers |-> -1]
  /\ job       = [h \in Handlers |-> Idle]

Free(h)       == job[h] = Idle /\ fills[h] = -1
Takes(h, j)   == Free(h) /\ job' = [job EXCEPT ![h] = j]
Finishes(h)   == job' = [job EXCEPT ![h] = Idle]
Caching       == <<types, cached, fills>>
Reviewing     == <<reviews, replied, rated>>

-----------------------------------------------------------------------------
(* Mutant: a provider may report the delivery without announcing it. *)
DeliveredAtOnce(s) ==
  CASE s = "SCHEDULED"        -> {"OUT_FOR_DELIVERY", "DELIVERED", "FAILED"}
    [] s = "OUT_FOR_DELIVERY" -> {"DELIVERED", "FAILED"}
    [] OTHER                  -> {}

DeliveryTransitions(s) ==
  CASE s = "SCHEDULED"        -> {"OUT_FOR_DELIVERY", "FAILED"}
    [] s = "OUT_FOR_DELIVERY" -> {"DELIVERED", "FAILED"}
    [] OTHER                  -> {}

ComplaintTransitions(s) ==
  CASE s = "PENDING"     -> {"IN_PROGRESS", "REJECTED"}
    [] s = "IN_PROGRESS" -> {"RESOLVED", "REJECTED"}
    [] OTHER             -> {}

(* A time once set is never taken back: undefined leaves the column alone.  *)
Moved(row, to, stamps) ==
  [status |-> to, stamped |-> row.stamped \/ to \in stamps, had |-> row.had \union {to}]

CheckDelivery(h) ==
  /\ \E to \in DeliveryTransitions(delivery.status) :
       Takes(h, [kind |-> "delivery", to |-> to])
  /\ UNCHANGED <<delivery, complaint, Reviewing, Caching>>

UpdateDelivery(h) ==
  /\ job[h].kind = "delivery"
  /\ delivery' = Moved(delivery, job[h].to, {"DELIVERED"})
  /\ Finishes(h)
  /\ UNCHANGED <<complaint, Reviewing, Caching>>

FileComplaint ==
  /\ complaint.status = "none"
  /\ complaint' = Moved(complaint, "PENDING", {})
  /\ UNCHANGED <<delivery, Reviewing, Caching, job>>

(* A reply changes no status. *)
CheckComplaint(h) ==
  /\ \E to \in ComplaintTransitions(complaint.status) :
       Takes(h, [kind |-> "complaint", to |-> to])
  /\ UNCHANGED <<delivery, complaint, Reviewing, Caching>>

UpdateComplaint(h) ==
  /\ job[h].kind = "complaint"
  /\ complaint' = Moved(complaint, job[h].to, {"RESOLVED", "REJECTED"})
  /\ Finishes(h)
  /\ UNCHANGED <<delivery, Reviewing, Caching>>

-----------------------------------------------------------------------------
(* createReview: a transaction at the default isolation.  It counts the     *)
(* reviews committed so far and its own, and then writes the count; the     *)
(* insert shows to others when it commits.  A booking has one review.       *)
Writing(h)     == job[h].kind \in {"review", "rate"}
BeingWritten   == {job[h].booking : h \in {k \in Handlers : Writing(k)}}

CheckReview(h) ==
  /\ \E b \in Reviewed \ (reviews \union BeingWritten) :
       Takes(h, [kind |-> "review", booking |-> b])
  /\ UNCHANGED <<delivery, complaint, Reviewing, Caching>>

(* Mutant: the reviews are counted before the new one is inserted. *)
CountFirst(others) == Cardinality(others)

CountReviews(others) == Cardinality(others) + 1

Aggregate(h) ==
  /\ job[h].kind = "review"
  /\ job' = [job EXCEPT ![h] =
               [kind |-> "rate", booking |-> job[h].booking,
                count |-> CountReviews(reviews)]]
  /\ UNCHANGED <<delivery, complaint, Reviewing, Caching>>

CommitReview(h) ==
  /\ job[h].kind = "rate"
  /\ rated'   = job[h].count
  /\ reviews' = reviews \union {job[h].booking}
  /\ Finishes(h)
  /\ UNCHANGED <<delivery, complaint, replied, Caching>>

(* replyToReview: one reply to a review, unless two are posted at once; the *)
(* text of the second then replaces the first.                              *)
CheckReply(h) ==
  /\ \E b \in reviews \ replied : Takes(h, [kind |-> "reply", booking |-> b])
  /\ UNCHANGED <<delivery, complaint, Reviewing, Caching>>

ReplyToReview(h) ==
  /\ job[h].kind = "reply"
  /\ replied' = replied \union {job[h].booking}
  /\ Finishes(h)
  /\ UNCHANGED <<delivery, complaint, reviews, rated, Caching>>

-----------------------------------------------------------------------------
(* getAllServiceTypes: on a miss, a read of the table and then a write of   *)
(* the cache, which lasts an hour.                                          *)
ReadTypes(h) ==
  /\ cached = -1
  /\ Free(h)
  /\ fills' = [fills EXCEPT ![h] = types]
  /\ UNCHANGED <<delivery, complaint, Reviewing, types, cached, job>>

FillCache(h) ==
  /\ fills[h] # -1
  /\ cached' = fills[h]
  /\ fills'  = [fills EXCEPT ![h] = -1]
  /\ UNCHANGED <<delivery, complaint, Reviewing, types, job>>

(* createServiceType, updateServiceType, deleteServiceType: the table, then *)
(* the cache is emptied.                                                    *)
ChangeTypes(h) ==
  /\ types + 1 \in Versions
  /\ types' = types + 1
  /\ Takes(h, [kind |-> "evict"])
  /\ UNCHANGED <<delivery, complaint, Reviewing, cached, fills>>

Evict(h) ==
  /\ job[h].kind = "evict"
  /\ cached' = -1
  /\ Finishes(h)
  /\ UNCHANGED <<delivery, complaint, Reviewing, types, fills>>

(* Mutant: the list is cached without a time to live. *)
KeptForEver(c) == FALSE

TimeToLive(c) == c # -1

CacheExpires ==
  /\ TimeToLive(cached)
  /\ cached' = -1
  /\ UNCHANGED <<delivery, complaint, Reviewing, types, fills, job>>

(* An error or a crash: a transaction is rolled back, a change that has     *)
(* been made stays.                                                         *)
HandlerFails(h) ==
  /\ ~Free(h)
  /\ Finishes(h)
  /\ fills' = [fills EXCEPT ![h] = -1]
  /\ UNCHANGED <<delivery, complaint, Reviewing, types, cached>>

AfterSalesNext ==
  \/ \E h \in Handlers :
       \/ CheckDelivery(h) \/ UpdateDelivery(h) \/ CheckComplaint(h) \/ UpdateComplaint(h)
       \/ CheckReview(h) \/ Aggregate(h) \/ CommitReview(h) \/ CheckReply(h) \/ ReplyToReview(h)
       \/ ReadTypes(h) \/ FillCache(h) \/ ChangeTypes(h) \/ Evict(h) \/ HandlerFails(h)
  \/ FileComplaint \/ CacheExpires

-----------------------------------------------------------------------------
AfterSalesTypeOK ==
  /\ delivery.status \in {"SCHEDULED", "OUT_FOR_DELIVERY", "DELIVERED", "FAILED"}
  /\ complaint.status \in {"none", "PENDING", "IN_PROGRESS", "RESOLVED", "REJECTED"}
  /\ replied \subseteq reviews /\ reviews \subseteq Reviewed
  /\ types \in Versions
  /\ cached \in -1 .. types

(* Whatever two updates that race leave behind, a delivery is DELIVERED     *)
(* only after it was out, and a complaint RESOLVED only after someone took  *)
(* it up; both then carry their time.                                       *)
ClosedFollowsTheRules ==
  /\ delivery.status = "DELIVERED" => "OUT_FOR_DELIVERY" \in delivery.had /\ delivery.stamped
  /\ complaint.status = "RESOLVED" => "IN_PROGRESS" \in complaint.had /\ complaint.stamped

(* A service with reviews counts some of them, and never more than there    *)
(* are.  (That it counts all of them does not hold: two that commit at once *)
(* do not see each other.)                                                  *)
RatingIsOfReviews ==
  /\ rated <= Cardinality(reviews)
  /\ reviews # {} => rated > 0

(* A reader that put an old list into the cache after it was emptied, or a  *)
(* change that failed before it was, is made good when the cache expires.   *)
TypesCacheCatchesUp == []<>(cached \in {-1, types})
=============================================================================
