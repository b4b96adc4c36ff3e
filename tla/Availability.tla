----------------------------- MODULE Availability -----------------------------
(***************************************************************************)
(* Who may book which service when: the checks that createEvent,           *)
(* addServiceToEvent and bookPackage make in their serializable            *)
(* transactions, against bookings, package purchases and blocked slots.    *)
(*                                                                         *)
(* A service can have working hours, or slots, or both; one sub-service    *)
(* with a daily quantity stands for its items.  What happens to a booking  *)
(* after its creation is EventBookings' and PackageBookings' business:     *)
(* here it only counts whether a booking is open, completed or dead, and   *)
(* whether a late write brought it back after it was completed or dead.    *)
(***************************************************************************)
EXTENDS Sequences, FiniteSets, TimeWindows, FiniteSetsExt, SequencesExt

CONSTANTS
  Customers, Services, Slots,
  Days,             \* dates; a number each
  HasHours,         \* services with an availability without slots
  From, To,         \* its hours, and those of the slots
  Capacity,         \* daily capacity of the hours of a service, and of each slot
  SlottedCapacity,  \* daily capacity of the availability that holds the slots
  SlotService,      \* the service of a slot
  RequiresItems,    \* services that are booked by sub-service items
  DailyCapacity,    \* SubService.dailyCapacity
  Packaged,         \* services that are sold in packages only
  PackageServices,  \* the services of the (one) package
  Windows,          \* the event times customers ask for, as <<start, end>>
  Orders,           \* the item lists customers send: quantities of the sub-service
  Blocks,           \* the times providers block: <<from, to>>, or NoTime: all day
  NoSlot, NoTime,
  MaxServices,      \* how many services a request may name
  MaxBookings, MaxBlocks, MaxChanges  \* bounds of the model

ASSUME AvailabilityAssumption ==
  /\ Days \subseteq Nat
  /\ HasHours \subseteq Services
  /\ Services \intersect Slots = {}
  /\ From \in [Services \union Slots -> TimesOfDay]
  /\ To \in [Services \union Slots -> TimesOfDay]
  /\ Capacity \in [Services \union Slots -> Nat]
  /\ SlottedCapacity \in [Services -> Nat]
  /\ SlotService \in [Slots -> Services]
  /\ DailyCapacity \in [Services -> Nat]
  /\ PackageServices \subseteq Services
  /\ Windows \subseteq TimesOfDay \X TimesOfDay
  /\ \A w \in Windows : w[1] # w[2]
  /\ Orders \subseteq Seq(Nat \ {0})
  /\ NoSlot \notin Slots
  /\ \A x \in Blocks : x = NoTime \/ (x \in TimesOfDay \X TimesOfDay /\ x[1] < x[2])
  /\ MaxServices \in Nat
  /\ MaxBlocks \in Nat

VARIABLES
  bookings,   \* the rows of Booking with their items, in the order of creation
  purchases,  \* the rows of PackageEventBooking
  blocked,    \* the rows of BlockedSlot
  asking,     \* bookPackage requests of a customer that passed the first look
  changes     \* how many rows the other modules have changed

vars == <<bookings, purchases, blocked, asking, changes>>

Init ==
  /\ bookings  = <<>>
  /\ purchases = <<>>
  /\ blocked   = {}
  /\ asking    = [c \in Customers |-> 0]
  /\ changes   = 0

-----------------------------------------------------------------------------
(* Mutant: a service that is sold by its items is booked without any. *)
ItemsOptional ==
  {s \in [service : Services, slot : Slots \union {NoSlot}, items : Orders \union {<<>>}] :
     /\ s.slot # NoSlot => SlotService[s.slot] = s.service
     /\ s.slot = NoSlot => s.service \in HasHours
     /\ s.items # <<>> => s.service \in RequiresItems}

(* What a customer asks for: a service, a slot or the working hours, items. *)
Selections ==
  {s \in [service : Services, slot : Slots \union {NoSlot}, items : Orders \union {<<>>}] :
     /\ s.slot # NoSlot => SlotService[s.slot] = s.service
     /\ s.slot = NoSlot => s.service \in HasHours
     /\ s.service \in RequiresItems <=> s.items # <<>>}

(* What carries the hours of a selection. *)
Holder(s) == IF s.slot = NoSlot THEN s.service ELSE s.slot

WithinHours(w, s) ==
  isRangeWithinWindow(w[1], w[2], From[Holder(s)], To[Holder(s)])

Row(c, d, w, s) ==
  [customer |-> c, day |-> d, window |-> w, service |-> s.service,
   slot |-> s.slot, items |-> s.items, status |-> "open", revived |-> FALSE]

(* The statuses that count in the checks of module EventService.  Bookings  *)
(* that are over count too; in bookPackage they do not.                     *)
ACTIVE_BOOKING_STATUSES == {"open", "completed"}
PackageActiveStatuses   == {"open"}

Active(rows, counted, d) ==
  {i \in DOMAIN rows : rows[i].status \in counted /\ rows[i].day = d}

Duplicate(rows, active, c, s) ==
  \E i \in active : rows[i].customer = c /\ rows[i].service = s.service

Hits(w, x) == x = NoTime \/ rangesOverlap(w[1], w[2], x[1], x[2])

(* Mutant: a block of all services of the provider is not looked at. *)
IsBlockedForService(d, w, s) ==
  \E x \in blocked : x.day = d /\ x.service = s.service /\ Hits(w, x.time)

IsBlocked(d, w, s) ==
  \E x \in blocked : x.day = d /\ x.service \in {s.service, "all"} /\ Hits(w, x.time)

(* The bookings that use the availability, and the slot, of a selection. *)
OnAvailability(rows, active, s) ==
  {i \in active : rows[i].service = s.service /\ (rows[i].slot = NoSlot <=> s.slot = NoSlot)}
OnSlot(rows, active, s) == {i \in active : rows[i].slot = s.slot}

AvailabilityCapacity(s) ==
  IF s.slot = NoSlot THEN Capacity[s.service] ELSE SlottedCapacity[s.service]

(* Mutant: the last place is given away twice. *)
FitsLoosely(rows, active, s) ==
  Cardinality(OnAvailability(rows, active, s)) <= AvailabilityCapacity(s)

FitsAvailability(rows, active, s) ==
  Cardinality(OnAvailability(rows, active, s)) < AvailabilityCapacity(s)

FitsSlot(rows, active, s) ==
  s.slot # NoSlot => Cardinality(OnSlot(rows, active, s)) < Capacity[s.slot]

Total(items) == FoldLeft(LAMBDA a, b : a + b, 0, items)
Quantities(rows, T) == MapThenSumSet(LAMBDA i : Total(rows[i].items), T)
Ordered(rows, active, v) == Quantities(rows, {i \in active : rows[i].service = v})

(* Each item is held against what other bookings have ordered; two items of *)
(* one booking for the same sub-service do not see each other.              *)
ItemsFit(rows, active, s) ==
  \A k \in DOMAIN s.items :
    Ordered(rows, active, s.service) + s.items[k] <= DailyCapacity[s.service]

(* Mutants: a check left out of the transaction. *)
AdmitsFullSlots(rows, counted, c, d, w, s) ==
  LET active == Active(rows, counted, d)
  IN /\ ~Duplicate(rows, active, c, s)
     /\ ~IsBlocked(d, w, s)
     /\ FitsAvailability(rows, active, s)
     /\ ItemsFit(rows, active, s)
AdmitsAnyQuantity(rows, counted, c, d, w, s) ==
  LET active == Active(rows, counted, d)
  IN /\ ~Duplicate(rows, active, c, s)
     /\ ~IsBlocked(d, w, s)
     /\ FitsAvailability(rows, active, s)
     /\ FitsSlot(rows, active, s)

(* What the transaction asks of one service. *)
Admits(rows, counted, c, d, w, s) ==
  LET active == Active(rows, counted, d)
  IN /\ ~Duplicate(rows, active, c, s)
     /\ ~IsBlocked(d, w, s)
     /\ FitsAvailability(rows, active, s)
     /\ FitsSlot(rows, active, s)
     /\ ItemsFit(rows, active, s)

(* A service of packages only is not among those the request may name.       *)
SoldAlone(s) == s.service \notin Packaged

(* The services are taken one after the other: a later one sees the rows of *)
(* the earlier ones.  One refusal rolls the whole event back.               *)
CreateEvent(c, d, w, sels) ==
  LET rows == [k \in DOMAIN sels |-> Row(c, d, w, sels[k])]
  IN /\ sels # <<>>
     /\ \A k \in DOMAIN sels :
          /\ SoldAlone(sels[k])
          /\ WithinHours(w, sels[k])
          /\ Admits(bookings \o SubSeq(rows, 1, k - 1), ACTIVE_BOOKING_STATUSES,
                    c, d, w, sels[k])
     /\ bookings' = bookings \o rows
     /\ UNCHANGED <<purchases, blocked, asking, changes>>

(* To the event of booking i: on its day, at its time.  That the event is   *)
(* still open and far enough away is a matter of EventBookings; here any    *)
(* event may get one more service.                                          *)
AddServiceToEvent(i, s) ==
  LET b == bookings[i]
  IN /\ SoldAlone(s)
     /\ WithinHours(b.window, s)
     /\ Admits(bookings, ACTIVE_BOOKING_STATUSES, b.customer, b.day, b.window, s)
     /\ bookings' = Append(bookings, Row(b.customer, b.day, b.window, s))
     /\ UNCHANGED <<purchases, blocked, asking, changes>>

-----------------------------------------------------------------------------
(* bookPackage looks for an active purchase before its transaction and      *)
(* again in it.                                                             *)
HasActivePurchase(c) ==
  \E i \in DOMAIN purchases : purchases[i].customer = c /\ purchases[i].status = "open"

BookPackage(c) ==
  /\ ~HasActivePurchase(c)
  /\ asking[c] < 2                    \* a bound of the model
  /\ asking' = [asking EXCEPT ![c] = @ + 1]
  /\ UNCHANGED <<bookings, purchases, blocked, changes>>

(* Mutant: the first look is enough. *)
NoSecondLook(c) == FALSE

SecondLook(c) == HasActivePurchase(c)

(* One selection per service of the package. *)
WholePackage(sels) ==
  /\ {sels[k].service : k \in DOMAIN sels} = PackageServices
  /\ Len(sels) = Cardinality(PackageServices)

(* The children are created after all checks. *)
BookPackageCommit(c, d, w, sels) ==
  /\ asking[c] > 0
  /\ asking' = [asking EXCEPT ![c] = @ - 1]
  /\ WholePackage(sels)
  /\ ~SecondLook(c)
  /\ \A k \in DOMAIN sels :
       /\ WithinHours(w, sels[k])
       /\ Admits(bookings, PackageActiveStatuses, c, d, w, sels[k])
  /\ bookings' = bookings \o [k \in DOMAIN sels |-> Row(c, d, w, sels[k])]
  /\ purchases' = Append(purchases, [customer |-> c, status |-> "open", revived |-> FALSE])
  /\ UNCHANGED <<blocked, changes>>

BookPackageFails(c) ==
  /\ asking[c] > 0
  /\ asking' = [asking EXCEPT ![c] = @ - 1]
  /\ UNCHANGED <<bookings, purchases, blocked, changes>>

-----------------------------------------------------------------------------
(* Blocked slots: a row per day of the range, held together by a group.     *)
Groups == {x.group : x \in blocked}

CreateBlock(v, first, last, time) ==
  /\ first <= last
  /\ LET g == CHOOSE n \in 1 .. MaxBlocks : n \notin Groups
     IN blocked' = blocked \union
          [service : {v}, day : Days \intersect (first .. last), time : {time}, group : {g}]
  /\ UNCHANGED <<bookings, purchases, asking, changes>>

RemoveBlock(x, wholeGroup) ==
  /\ blocked' = IF wholeGroup THEN {y \in blocked : y.group # x.group} ELSE blocked \ {x}
  /\ UNCHANGED <<bookings, purchases, asking, changes>>

-----------------------------------------------------------------------------
(* The other modules at work.  A handler that read an open row may write it *)
(* back after the row was completed or cancelled, so a booking can go from  *)
(* any kind of status to any other; a purchase is open or dead (see         *)
(* EventBookings and PackageBookings).                                      *)
Changed(row, s) == [row EXCEPT !.status = s, !.revived = @ \/ row.status # "open"]

BookingsChange(S, s) ==
  /\ S # {}
  /\ \A i \in S : bookings[i].status # s
  /\ bookings' = [i \in DOMAIN bookings |->
                    IF i \in S THEN Changed(bookings[i], s) ELSE bookings[i]]
  /\ changes' = changes + 1
  /\ UNCHANGED <<purchases, blocked, asking>>

PurchaseChanges(i, s) ==
  /\ purchases[i].status # s
  /\ purchases' = [purchases EXCEPT ![i] = Changed(@, s)]
  /\ changes' = changes + 1
  /\ UNCHANGED <<bookings, blocked, asking>>

Room(n) == Len(bookings) + n <= MaxBookings

(* The services array of a request. *)
Requested == UNION {[1 .. n -> Selections] : n \in 1 .. MaxServices}

Next ==
  \/ \E c \in Customers, d \in Days, w \in Windows, sels \in Requested :
       Room(Len(sels)) /\ (CreateEvent(c, d, w, sels) \/ BookPackageCommit(c, d, w, sels))
  \/ \E i \in DOMAIN bookings, s \in Selections : Room(1) /\ AddServiceToEvent(i, s)
  \/ \E c \in Customers : BookPackage(c) \/ BookPackageFails(c)
  \/ \E v \in Services \union {"all"}, first, last \in Days, time \in Blocks :
       Cardinality(Groups) < MaxBlocks /\ CreateBlock(v, first, last, time)
  \/ \E x \in blocked, wholeGroup \in BOOLEAN : RemoveBlock(x, wholeGroup)
  \/ /\ changes < MaxChanges
     /\ \/ \E S \in SUBSET DOMAIN bookings, s \in {"open", "completed", "dead"} :
             BookingsChange(S, s)
        \/ \E i \in DOMAIN purchases, s \in {"open", "dead"} : PurchaseChanges(i, s)

Spec == Init /\ [][Next]_vars

-----------------------------------------------------------------------------
BookingRows ==
  [customer : Customers, day : Days, window : Windows, service : Services,
   slot : Slots \union {NoSlot}, items : Orders \union {<<>>},
   status : {"open", "completed", "dead"}, revived : BOOLEAN]

(* A booking is of its service's kind: for a slot of the service, or for its *)
(* working hours if it has any; with items exactly if it is sold by items.   *)
RightKind(b) ==
  /\ IF b.slot = NoSlot THEN b.service \in HasHours ELSE SlotService[b.slot] = b.service
  /\ b.items # <<>> <=> b.service \in RequiresItems

(* The rows are of the shape of their tables, and each booking, through      *)
(* whichever endpoint it came, is of the kind its service calls for: what it *)
(* takes is counted on the availability, the slot and the items it uses.     *)
TypeOK ==
  /\ bookings \in Seq(BookingRows)
  /\ \A i \in DOMAIN bookings : RightKind(bookings[i])
  /\ purchases \in Seq([customer : Customers, status : {"open", "dead"}, revived : BOOLEAN])
  /\ blocked \subseteq [service : Services \union {"all"}, day : Days,
                        time : Blocks, group : 1 .. MaxBlocks]
  /\ asking \in [Customers -> 0 .. 2]
  /\ changes \in Nat

(* The bookings that have been open all along; one that a late write brought *)
(* back took no place when it came back, and no check could refuse it.       *)
Kept(d) == {i \in Active(bookings, {"open"}, d) : ~bookings[i].revived}

(* No availability and no slot holds more open bookings than its capacity,  *)
(* through whichever of the three endpoints they came.                      *)
CapacityHolds ==
  \A d \in Days, s \in Selections :
    Cardinality(OnAvailability(bookings, Kept(d), s)) <= AvailabilityCapacity(s)

SlotCapacityHolds ==
  \A d \in Days, t \in Slots :
    Cardinality({i \in Kept(d) : bookings[i].slot = t}) <= Capacity[t]

(* The quantities ordered of a sub-service stay within its daily capacity,  *)
(* if one counts an order that lists it twice by its largest item only.     *)
Largest(items) == Max({0} \union {items[k] : k \in DOMAIN items})
LargestOf(rows, T) == MapThenSumSet(LAMBDA i : Largest(rows[i].items), T)
DailyCapacityHolds ==
  \A d \in Days, v \in Services :
    LargestOf(bookings, {i \in Kept(d) : bookings[i].service = v}) <= DailyCapacity[v]

(* A customer has a service once a day, and a package once at a time, also  *)
(* when the same request is sent twice at once.                             *)
NoDoubleBooking ==
  /\ \A d \in Days : \A i, j \in Kept(d) :
       bookings[i].customer = bookings[j].customer /\ bookings[i].service = bookings[j].service
         => i = j
  /\ \A i, j \in DOMAIN purchases :
       /\ purchases[i].customer = purchases[j].customer
       /\ purchases[i].status = "open" /\ ~purchases[i].revived
       /\ purchases[j].status = "open" /\ ~purchases[j].revived
       => i = j

(* Every minute of the event is a minute of the service's hours or slot,    *)
(* windows that run past midnight included.                                 *)
InsideHours ==
  \A i \in DOMAIN bookings :
    LET b == bookings[i] h == Holder(b)
    IN Minutes(b.window[1], b.window[2]) \subseteq Minutes(From[h], To[h])

(* A new booking meets no block of its service or provider on its day; what *)
(* an event takes of the next day's small hours is not looked at.           *)
OutsideBlocks ==
  [][\A i \in DOMAIN bookings' \ DOMAIN bookings, x \in blocked :
       LET b == bookings'[i]
       IN x.day = b.day /\ x.service \in {b.service, "all"} =>
            /\ x.time # NoTime
            /\ FirstDayMinutes(b.window[1], b.window[2])
                 \intersect Minutes(x.time[1], x.time[2]) = {}]_vars
=============================================================================
