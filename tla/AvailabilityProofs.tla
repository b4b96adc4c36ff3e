-------------------------- MODULE AvailabilityProofs --------------------------
(***************************************************************************)
(* Proofs about time.helper.ts, for every pair of ranges and a day of any  *)
(* length: the two comparisons mean what their callers take them to mean.  *)
(* And about Availability, for any services, slots, hours and blocks, and  *)
(* any number of requests at once: no booking leaves the hours of its      *)
(* service, whichever endpoint made it, none is accepted into a block, no  *)
(* day and no slot is sold beyond its capacity, and no customer has one    *)
(* service twice a day or one package twice.                               *)
(*                                                                         *)
(* The limits that count rows are one invariant, LimitsHold: each of them *)
(* bounds the rows that fall into some set, and a row is taken only by a   *)
(* transaction that has just counted that set.                             *)
(***************************************************************************)
EXTENDS Availability, FiniteSetTheorems, WellFoundedInduction, TLAPS

LEMMA EndOfType ==
  ASSUME NEW from \in TimesOfDay, NEW to \in TimesOfDay
  PROVE  EndOf(from, to) \in Int /\ from < EndOf(from, to)
BY DayLengthAssumption DEF EndOf, TimesOfDay

(* If isRangeWithinWindow lets an event through, every minute of the event  *)
(* is a minute of the window, whichever of the two run past midnight.       *)
THEOREM WithinWindowIsCovered ==
  ASSUME NEW evStart \in TimesOfDay, NEW evEnd \in TimesOfDay,
         NEW winStart \in TimesOfDay, NEW winEnd \in TimesOfDay,
         evStart # evEnd,
         isRangeWithinWindow(evStart, evEnd, winStart, winEnd)
  PROVE  Minutes(evStart, evEnd) \subseteq Minutes(winStart, winEnd)
<1> SUFFICES ASSUME NEW m \in TimesOfDay, m \in Minutes(evStart, evEnd)
             PROVE  m \in Minutes(winStart, winEnd)
  BY DEF Minutes
<1>1. CASE evStart < evEnd
  BY <1>1, DayLengthAssumption DEF Minutes, isRangeWithinWindow, EndOf, TimesOfDay
<1>2. CASE evEnd < evStart
  BY <1>2, DayLengthAssumption DEF Minutes, isRangeWithinWindow, EndOf, TimesOfDay
<1> QED
  BY <1>1, <1>2 DEF TimesOfDay

(* rangesOverlap holds of an event and a block exactly when they share a    *)
(* minute of the event's first day.  A block does not wrap.                 *)
THEOREM OverlapIsASharedMinute ==
  ASSUME NEW aStart \in TimesOfDay, NEW aEnd \in TimesOfDay,
         NEW bStart \in TimesOfDay, NEW bEnd \in TimesOfDay,
         bStart < bEnd
  PROVE  rangesOverlap(aStart, aEnd, bStart, bEnd)
           <=> FirstDayMinutes(aStart, aEnd) \intersect Minutes(bStart, bEnd) # {}
<1>1. ASSUME rangesOverlap(aStart, aEnd, bStart, bEnd)
      PROVE  FirstDayMinutes(aStart, aEnd) \intersect Minutes(bStart, bEnd) # {}
  <2> DEFINE later == IF aStart < bStart THEN bStart ELSE aStart
  <2>1. later \in TimesOfDay /\ bStart <= later /\ later < bEnd
    BY <1>1 DEF rangesOverlap, TimesOfDay
  <2>2. aStart <= later /\ later < EndOf(aStart, aEnd)
    BY <1>1, EndOfType DEF rangesOverlap, TimesOfDay
  <2>3. later \in FirstDayMinutes(aStart, aEnd) \intersect Minutes(bStart, bEnd)
    BY <2>1, <2>2 DEF FirstDayMinutes, Minutes
  <2> QED
    BY <2>3
<1>2. ASSUME NEW m \in FirstDayMinutes(aStart, aEnd) \intersect Minutes(bStart, bEnd)
      PROVE  rangesOverlap(aStart, aEnd, bStart, bEnd)
  <2>1. m \in Int /\ aStart <= m /\ m < EndOf(aStart, aEnd)
    BY DEF FirstDayMinutes, TimesOfDay
  <2>2. bStart <= m /\ m < bEnd
    BY DEF Minutes
  <2> QED
    BY <2>1, <2>2, EndOfType DEF rangesOverlap, TimesOfDay
<1> QED
  BY <1>1, <1>2

-----------------------------------------------------------------------------
(* What the structural checks leave in a row. *)
WellPlaced(b) ==
  /\ b \in BookingRows
  /\ Holder(b) \in Services \union Slots
  /\ WithinHours(b.window, b)
  /\ RightKind(b)

Placed == bookings \in Seq({b \in BookingRows : WellPlaced(b)})

-----------------------------------------------------------------------------
LEMMA PlacedIsInside == Placed => InsideHours
<1> SUFFICES ASSUME Placed, NEW i \in DOMAIN bookings
             PROVE  LET b == bookings[i] h == Holder(b)
                    IN Minutes(b.window[1], b.window[2]) \subseteq Minutes(From[h], To[h])
  BY DEF InsideHours
<1> DEFINE b == bookings[i]
           h == Holder(b)
<1>1. b \in BookingRows /\ h \in Services \union Slots /\ WithinHours(b.window, b)
  BY DEF Placed, WellPlaced
<1>2. b.window \in Windows
  BY <1>1 DEF BookingRows
<1>3. /\ b.window[1] \in TimesOfDay /\ b.window[2] \in TimesOfDay
      /\ b.window[1] # b.window[2]
  BY <1>2, AvailabilityAssumption
<1>4. From[h] \in TimesOfDay /\ To[h] \in TimesOfDay
  BY <1>1, AvailabilityAssumption
<1>5. isRangeWithinWindow(b.window[1], b.window[2], From[h], To[h])
  BY <1>1 DEF WithinHours
<1> QED
  BY <1>3, <1>4, <1>5, WithinWindowIsCovered

(* A row made of a selection that passed the check of hours. *)
LEMMA RowIsPlaced ==
  ASSUME NEW c \in Customers, NEW d \in Days, NEW w \in Windows, NEW s \in Selections,
         WithinHours(w, s)
  PROVE  WellPlaced(Row(c, d, w, s))
<1> DEFINE r == Row(c, d, w, s)
<1>1. /\ s.service \in Services /\ s.slot \in Slots \union {NoSlot}
      /\ s.items \in Orders \union {<<>>}
  BY DEF Selections
<1>2. r \in BookingRows
  BY <1>1 DEF Row, BookingRows
<1>3. Holder(r) = Holder(s) /\ Holder(r) \in Services \union Slots
  BY <1>1 DEF Row, Holder
<1>4. WithinHours(r.window, r)
  BY <1>3 DEF WithinHours, Row
<1>5. RightKind(r)
  BY DEF RightKind, Row, Selections
<1> QED
  BY <1>2, <1>3, <1>4, <1>5 DEF WellPlaced

LEMMA RowsArePlaced ==
  ASSUME NEW c \in Customers, NEW d \in Days, NEW w \in Windows, NEW sels \in Requested,
         \A k \in DOMAIN sels : WithinHours(w, sels[k])
  PROVE  [k \in DOMAIN sels |-> Row(c, d, w, sels[k])] \in Seq({b \in BookingRows : WellPlaced(b)})
<1> DEFINE Good == {b \in BookingRows : WellPlaced(b)}
           rows == [k \in DOMAIN sels |-> Row(c, d, w, sels[k])]
<1>1. PICK n \in 1 .. MaxServices : sels \in [1 .. n -> Selections]
  BY DEF Requested
<1>2. \A k \in DOMAIN sels : rows[k] \in Good
  BY <1>1, RowIsPlaced DEF WellPlaced
<1> QED
  BY <1>1, <1>2
-----------------------------------------------------------------------------
LEMMA InitPlaced == Init => Placed
BY DEF Init, Placed

(* The other modules change the status of a row and nothing else. *)
LEMMA ChangedIsPlaced ==
  ASSUME NEW b, WellPlaced(b), NEW s \in {"open", "completed", "dead"}
  PROVE  WellPlaced(Changed(b, s))
<1> DEFINE r == Changed(b, s)
<1>0. b \in BookingRows
  BY DEF WellPlaced
<1>1. r \in BookingRows
  BY <1>0 DEF Changed, BookingRows
<1>2. r.window = b.window /\ r.service = b.service /\ r.slot = b.slot /\ r.items = b.items
  BY <1>0 DEF Changed, BookingRows
<1> QED
  BY <1>1, <1>2 DEF WellPlaced, Holder, WithinHours, RightKind

LEMMA NextPlaced == Placed /\ [Next]_vars => Placed'
<1> SUFFICES ASSUME Placed, [Next]_vars PROVE Placed'
  OBVIOUS
<1> DEFINE Good == {b \in BookingRows : WellPlaced(b)}
<1>1. ASSUME NEW c \in Customers, NEW d \in Days, NEW w \in Windows, NEW sels \in Requested,
             CreateEvent(c, d, w, sels) \/ BookPackageCommit(c, d, w, sels)
      PROVE  Placed'
  <2>1. \A k \in DOMAIN sels : WithinHours(w, sels[k])
    BY <1>1 DEF CreateEvent, BookPackageCommit
  <2>2. [k \in DOMAIN sels |-> Row(c, d, w, sels[k])] \in Seq(Good)
    BY <2>1, RowsArePlaced
  <2>3. bookings' = bookings \o [k \in DOMAIN sels |-> Row(c, d, w, sels[k])]
    BY <1>1 DEF CreateEvent, BookPackageCommit
  <2> QED
    BY <2>2, <2>3 DEF Placed
<1>2. ASSUME NEW i \in DOMAIN bookings, NEW s \in Selections, AddServiceToEvent(i, s)
      PROVE  Placed'
  <2> DEFINE b == bookings[i]
  <2>1. b.customer \in Customers /\ b.day \in Days /\ b.window \in Windows
    BY DEF Placed, BookingRows
  <2>2. WithinHours(b.window, s) /\ bookings' = Append(bookings, Row(b.customer, b.day, b.window, s))
    BY <1>2 DEF AddServiceToEvent
  <2>3. Row(b.customer, b.day, b.window, s) \in Good
    BY <2>1, <2>2, RowIsPlaced DEF WellPlaced
  <2> QED
    BY <2>2, <2>3 DEF Placed
<1>3. ASSUME NEW S \in SUBSET DOMAIN bookings, NEW s \in {"open", "completed", "dead"},
             BookingsChange(S, s)
      PROVE  Placed'
  <2>1. bookings' = [i \in DOMAIN bookings |->
                       IF i \in S THEN Changed(bookings[i], s) ELSE bookings[i]]
    BY <1>3 DEF BookingsChange
  <2>2. \A i \in DOMAIN bookings : bookings[i] \in Good
    BY DEF Placed
  <2>3. \A i \in DOMAIN bookings : Changed(bookings[i], s) \in Good
    BY <2>2, ChangedIsPlaced DEF WellPlaced
  <2>4. \A i \in DOMAIN bookings : bookings'[i] \in Good
    BY <2>1, <2>2, <2>3
  <2>5. DOMAIN bookings' = 1 .. Len(bookings) /\ Len(bookings) \in Nat
    BY <2>1 DEF Placed
  <2> QED
    BY <2>1, <2>4, <2>5 DEF Placed
<1>4. ASSUME UNCHANGED bookings PROVE Placed'
  BY <1>4 DEF Placed, WellPlaced, BookingRows, WithinHours, Holder, RightKind
<1>5. CASE \E c \in Customers : BookPackage(c) \/ BookPackageFails(c)
  BY <1>4, <1>5 DEF BookPackage, BookPackageFails
<1>6. CASE \/ \E v \in Services \union {"all"}, first, last \in Days, time \in Blocks :
                CreateBlock(v, first, last, time)
           \/ \E x \in blocked, wholeGroup \in BOOLEAN : RemoveBlock(x, wholeGroup)
           \/ \E i \in DOMAIN purchases, s \in {"open", "dead"} : PurchaseChanges(i, s)
  BY <1>4, <1>6 DEF CreateBlock, RemoveBlock, PurchaseChanges
<1>7. CASE UNCHANGED vars
  BY <1>4, <1>7 DEF vars
<1> QED
  BY <1>1, <1>2, <1>3, <1>5, <1>6, <1>7 DEF Next

(* createEvent, addServiceToEvent and bookPackage keep every booking inside *)
(* the hours of its service or slot, and nothing later moves it out.        *)
THEOREM BookedInsideHours == Spec => []InsideHours
<1>1. Spec => []Placed
  BY InitPlaced, NextPlaced, PTL DEF Spec
<1> QED
  BY <1>1, PlacedIsInside, PTL

-----------------------------------------------------------------------------
(* Sums.  The quantities of orders are added up by folds, and a fold is a    *)
(* recursive function.  Induction here is an argument about a smallest       *)
(* counterexample; the sets it is about take the place of a predicate.       *)

LEMMA LessThan == IsWellFoundedOn({p \in Nat \X Nat : p[1] < p[2]}, Nat)
  BY NatLessThanWellFounded DEF OpToRel

LEMMA Smallest ==
  ASSUME NEW T, T \subseteq Nat, T # {} PROVE \E n \in T : \A m \in T : n <= m
<1> DEFINE R == {p \in Nat \X Nat : p[1] < p[2]}
<1>1. \E n \in T : \A m \in T : ~(<<m, n>> \in R)
  <2>1. IsWellFoundedOn(R, Nat)
    BY LessThan
  <2> HIDE DEF R
  <2> QED
    BY <2>1, WFMin, Zenon
<1>2. PICK n \in T : \A m \in T : ~(<<m, n>> \in R)
  BY <1>1
<1>3. ASSUME NEW m \in T PROVE n <= m
  <2>1. m \in Nat /\ n \in Nat /\ ~(<<m, n>> \in R)
    BY <1>2
  <2>2. <<m, n>>[1] = m /\ <<m, n>>[2] = n
    OBVIOUS
  <2> QED
    BY <2>1, <2>2
<1> QED
  BY <1>3

LEMMA NatSets ==
  ASSUME NEW G, 0 \in G, \A n \in Nat : n \in G => n + 1 \in G PROVE Nat \subseteq G
<1>1. SUFFICES ASSUME Nat \ G # {} PROVE FALSE
  OBVIOUS
<1>2. PICK n \in Nat \ G : \A m \in Nat \ G : n <= m
  BY <1>1, Smallest
<1>3. n - 1 \in Nat \ G
  BY <1>2
<1> QED
  BY <1>2, <1>3

LEMMA HasLargest ==
  ASSUME NEW S, IsFiniteSet(S), S \subseteq Nat, S # {} PROVE Max(S) \in S /\ \A y \in S : Max(S) >= y
<1> DEFINE G == {n \in Nat : \A T \in SUBSET S : Cardinality(T) = n + 1 =>
                               \E x \in T : \A y \in T : x >= y}
<1>1. 0 \in G
  <2> SUFFICES ASSUME NEW T \in SUBSET S, Cardinality(T) = 1 PROVE \E x \in T : \A y \in T : x >= y
    OBVIOUS
  <2>1. PICK x : T = {x}
    BY FS_Subset, FS_Singleton
  <2> QED
    BY <2>1
<1>2. ASSUME NEW n \in Nat, n \in G PROVE n + 1 \in G
  <2> SUFFICES ASSUME NEW T \in SUBSET S, Cardinality(T) = n + 1 + 1 PROVE \E x \in T : \A y \in T : x >= y
    OBVIOUS
  <2> HIDE DEF G
  <2>1. IsFiniteSet(T)
    BY FS_Subset
  <2>2. PICK z : z \in T
    <3>1. Cardinality(T) # 0
      OBVIOUS
    <3> QED
      BY <2>1, <3>1, FS_EmptySet
  <2>3. Cardinality(T \ {z}) = n + 1
    <3>1. Cardinality(T \ {z}) = Cardinality(T) - 1
      BY <2>1, <2>2, FS_RemoveElement
    <3> QED
      BY <3>1
  <2>4. PICK x \in T \ {z} : \A y \in T \ {z} : x >= y
    BY <1>2, <2>3 DEF G
  <2>5. x \in Nat /\ z \in Nat
    BY <2>2, <2>4
  <2> QED
    BY <2>4, <2>5
<1>3. Nat \subseteq G
  <2> HIDE DEF G
  <2> QED
    BY <1>1, <1>2, NatSets
<1>4. Cardinality(S) \in Nat /\ Cardinality(S) # 0
  BY FS_CardinalityType, FS_EmptySet
<1>5. \E x \in S : \A y \in S : x >= y
  BY <1>3, <1>4, Cardinality(S) - 1 \in Nat
<1> QED
  BY <1>5 DEF Max

(* Any way of taking the elements of a set one by one. *)
Picker(c, S) == \A U \in SUBSET S : U # {} => c[U] \in U

IsSum(f, c, S, g) ==
  /\ g \in [SUBSET S -> Nat]
  /\ g[{}] = 0
  /\ \A U \in SUBSET S : U # {} => g[U] = f[c[U]] + g[U \ {c[U]}]

LEMMA SubsetsOneByOne ==
  ASSUME NEW S, IsFiniteSet(S), NEW G,
         G \subseteq SUBSET S, {} \in G,
         \A U \in SUBSET S : U # {} /\ (\A V \in SUBSET U : V # U => V \in G) => U \in G
  PROVE G = SUBSET S
<1> DEFINE H == {n \in Nat : \A U \in SUBSET S : Cardinality(U) <= n => U \in G}
<1>0. \A U \in SUBSET S : IsFiniteSet(U) /\ Cardinality(U) \in Nat
  BY FS_Subset, FS_CardinalityType
<1>1. 0 \in H
  <2>1. \A U \in SUBSET S : Cardinality(U) <= 0 => U = {}
    BY <1>0, FS_EmptySet
  <2> QED
    BY <2>1
<1>2. ASSUME NEW n \in Nat, n \in H PROVE n + 1 \in H
  <2> SUFFICES ASSUME NEW U \in SUBSET S, Cardinality(U) = n + 1 PROVE U \in G
    BY <1>0, <1>2
  <2>1. ASSUME NEW V \in SUBSET U, V # U PROVE V \in G
    <3>1. V \in SUBSET S /\ Cardinality(V) \in Nat /\ Cardinality(V) < Cardinality(U)
      BY <1>0, <2>1, FS_Subset
    <3> QED
      BY <1>2, <3>1
  <2> QED
    BY <2>1
<1>3. Nat \subseteq H
  <2> HIDE DEF H
  <2> QED
    BY <1>1, <1>2, NatSets
<1> QED
  BY <1>0, <1>3

LEMMA Sums ==
  ASSUME NEW S, IsFiniteSet(S), NEW c, Picker(c, S), NEW f, \A x \in S : f[x] \in Nat,
         NEW g, DOMAIN g = SUBSET S, g = [U \in SUBSET S |-> g[U]], g[{}] = 0,
         \A U \in SUBSET S : U # {} => \/ g[U] = f[c[U]] + g[U \ {c[U]}]
                                       \/ g[U] = g[U \ {c[U]}] + f[c[U]]
  PROVE IsSum(f, c, S, g)
<1> DEFINE G == {U \in SUBSET S : g[U] \in Nat}
<1>1. ASSUME NEW U \in SUBSET S, U # {}, \A V \in SUBSET U : V # U => V \in G PROVE U \in G
  <2>1. c[U] \in U /\ f[c[U]] \in Nat
    BY <1>1 DEF Picker
  <2>2. U \ {c[U]} \in G
    BY <1>1, <2>1
  <2>3. \/ g[U] = f[c[U]] + g[U \ {c[U]}]
        \/ g[U] = g[U \ {c[U]}] + f[c[U]]
    BY <1>1
  <2> QED
    BY <2>1, <2>2, <2>3
<1>2. G = SUBSET S
  <2>1. G \subseteq SUBSET S /\ {} \in G
    OBVIOUS
  <2> HIDE DEF G
  <2> QED
    BY <1>1, <2>1, SubsetsOneByOne
<1>3. \A U \in SUBSET S : g[U] \in Nat
  BY <1>2
<1>4. g \in [SUBSET S -> Nat]
  BY <1>3
<1>5. ASSUME NEW U \in SUBSET S, U # {} PROVE g[U] = f[c[U]] + g[U \ {c[U]}]
  <2>1. f[c[U]] \in Nat /\ g[U \ {c[U]}] \in Nat
    BY <1>3, <1>5 DEF Picker
  <2>2. \/ g[U] = f[c[U]] + g[U \ {c[U]}]
        \/ g[U] = g[U \ {c[U]}] + f[c[U]]
    BY <1>5
  <2> QED
    BY <2>1, <2>2
<1> QED
  BY <1>4, <1>5 DEF IsSum

LEMMA SumExists ==
  ASSUME NEW S, IsFiniteSet(S), NEW c, Picker(c, S), NEW f, \A x \in S : f[x] \in Nat
  PROVE \E g : IsSum(f, c, S, g)
<1> DEFINE Small(n) == {U \in SUBSET S : Cardinality(U) <= n}
           Up(n, g) == /\ g \in [Small(n) -> Nat]
                       /\ g[{}] = 0
                       /\ \A U \in Small(n) : U # {} => g[U] = f[c[U]] + g[U \ {c[U]}]
           G == {n \in Nat : \E g : Up(n, g)}
<1>0. \A U \in SUBSET S : IsFiniteSet(U) /\ Cardinality(U) \in Nat /\ (Cardinality(U) = 0 <=> U = {})
  BY FS_Subset, FS_CardinalityType, FS_EmptySet
<1>9. ASSUME NEW U \in SUBSET S, U # {} 
      PROVE c[U] \in U /\ f[c[U]] \in Nat /\ Cardinality(U \ {c[U]}) = Cardinality(U) - 1
  BY <1>0, <1>9, FS_RemoveElement DEF Picker
<1>1. 0 \in G
  <2>1. Small(0) = {{}}
    BY <1>0, FS_EmptySet
  <2>2. Up(0, [U \in {{}} |-> 0])
    BY <2>1
  <2> QED
    BY <2>2
<1>2. ASSUME NEW n \in Nat, n \in G PROVE n + 1 \in G
  <2>1. PICK g : Up(n, g)
    BY <1>2
  <2> DEFINE h == [U \in Small(n + 1) |->
                     IF U \in Small(n) THEN g[U] ELSE f[c[U]] + g[U \ {c[U]}]]
  <2>2. \A U \in Small(n + 1) : U # {} => U \ {c[U]} \in Small(n)
    BY <1>0, <1>9
  <2>3. Small(n) \subseteq Small(n + 1) /\ {} \in Small(n)
    BY <1>0, FS_EmptySet
  <2>4. \A U \in Small(n + 1) : U \notin Small(n) => U # {}
    BY <2>3
  <2>5. h \in [Small(n + 1) -> Nat]
    <3> SUFFICES ASSUME NEW U \in Small(n + 1) PROVE h[U] \in Nat
      OBVIOUS
    <3> QED
      BY <1>9, <2>1, <2>2, <2>3, <2>4
  <2>6. ASSUME NEW U \in Small(n + 1), U # {} PROVE h[U] = f[c[U]] + h[U \ {c[U]}]
    <3>1. h[U \ {c[U]}] = g[U \ {c[U]}]
      BY <2>2, <2>3, <2>6
    <3> QED
      BY <2>1, <2>6, <3>1
  <2>7. h[{}] = 0
    BY <2>1, <2>3
  <2>8. Up(n + 1, h)
    <3> HIDE DEF h
    <3> QED
      BY <2>5, <2>6, <2>7
  <2> HIDE DEF h, Up
  <2> QED
    BY <2>8
<1>3. Nat \subseteq G
  <2> HIDE DEF G
  <2> QED
    BY <1>1, <1>2, NatSets
<1>4. Cardinality(S) \in Nat /\ Small(Cardinality(S)) = SUBSET S
  BY <1>0, FS_Subset
<1>5. PICK g : Up(Cardinality(S), g)
  BY <1>3, <1>4
<1>6. IsSum(f, c, S, g)
  BY <1>4, <1>5 DEF IsSum
<1> QED
  BY <1>6

LEMMA SumAdds ==
  ASSUME NEW S, IsFiniteSet(S), NEW c, Picker(c, S), NEW f, \A x \in S : f[x] \in Nat,
         NEW g, IsSum(f, c, S, g), NEW U \in SUBSET S, NEW y \in S \ U
  PROVE g[U \union {y}] = g[U] + f[y]
<1> DEFINE G == {V \in SUBSET S : \A x \in S \ V : g[V \union {x}] = g[V] + f[x]}
<1>1. {} \in G
  <2> SUFFICES ASSUME NEW x \in S PROVE g[{} \union {x}] = g[{}] + f[x]
    OBVIOUS
  <2>1. c[{x}] = x /\ {x} \ {x} = {} /\ {} \union {x} = {x}
    BY DEF Picker
  <2>2. g[{x}] = f[c[{x}]] + g[{x} \ {c[{x}]}]
    BY {x} \in SUBSET S, {x} # {} DEF IsSum
  <2>3. g[{x}] = f[x] + 0 /\ g[{}] = 0 /\ f[x] \in Nat
    BY <2>1, <2>2 DEF IsSum
  <2> QED
    BY <2>1, <2>3
<1>2. ASSUME NEW V \in SUBSET S, V # {}, \A W \in SUBSET V : W # V => W \in G PROVE V \in G
  <2> SUFFICES ASSUME NEW x \in S \ V PROVE g[V \union {x}] = g[V] + f[x]
    OBVIOUS
  <2> DEFINE p == c[V \union {x}]
  <2>1. p \in V \union {x} /\ g[V \union {x}] = f[p] + g[(V \union {x}) \ {p}]
    BY DEF Picker, IsSum
  <2>2. f[p] \in Nat /\ f[x] \in Nat /\ g[V] \in Nat
    BY <2>1 DEF IsSum
  <2> HIDE DEF p
  <2>3. CASE p = x
    <3>1. (V \union {x}) \ {x} = V
      OBVIOUS
    <3> QED
      BY <2>1, <2>2, <2>3, <3>1
  <2>4. CASE p \in V
    <3>1. V \ {p} \in G /\ (V \union {x}) \ {p} = (V \ {p}) \union {x} /\ V = (V \ {p}) \union {p}
      BY <1>2, <2>4
    <3>2. g[V \ {p}] \in Nat
      BY <3>1 DEF IsSum
    <3>3. g[(V \ {p}) \union {x}] = g[V \ {p}] + f[x]
      BY <3>1
    <3>4. g[V] = g[V \ {p}] + f[p]
      BY <3>1, <2>4
    <3>5. g[V \union {x}] = f[p] + (g[V \ {p}] + f[x])
      BY <2>1, <3>1, <3>3
    <3> QED
      BY <2>2, <3>2, <3>4, <3>5
  <2> QED
    BY <2>1, <2>3, <2>4
<1>3. G = SUBSET S
  <2>1. G \subseteq SUBSET S
    OBVIOUS
  <2> HIDE DEF G
  <2> QED
    BY <1>1, <1>2, <2>1, SubsetsOneByOne
<1> QED
  BY <1>3

LEMMA SumCovers ==
  ASSUME NEW S, IsFiniteSet(S), NEW c, Picker(c, S), NEW f, \A x \in S : f[x] \in Nat,
         NEW g, IsSum(f, c, S, g)
  PROVE  g[S] \in Nat /\ \A k \in S : f[k] <= g[S]
<1>1. ASSUME NEW k \in S PROVE f[k] <= g[S]
  <2>1. g[(S \ {k}) \union {k}] = g[S \ {k}] + f[k]
    BY SumAdds
  <2>2. (S \ {k}) \union {k} = S
    OBVIOUS
  <2>3. g[S] = g[S \ {k}] + f[k]
    BY <2>1, <2>2
  <2>4. g[S \ {k}] \in Nat /\ f[k] \in Nat
    BY DEF IsSum
  <2> QED
    BY <2>3, <2>4
<1> QED
  BY <1>1 DEF IsSum

(* A sum over more elements, or of larger numbers, is no smaller, however it *)
(* is taken.                                                                 *)
LEMMA SumGrows ==
  ASSUME NEW S, IsFiniteSet(S), NEW c, Picker(c, S), NEW f, \A x \in S : f[x] \in Nat,
         NEW g, IsSum(f, c, S, g),
         NEW T, IsFiniteSet(T), NEW b, Picker(b, T), NEW h, \A x \in T : h[x] \in Nat,
         NEW k, IsSum(h, b, T, k),
         \A x \in S \intersect T : f[x] <= h[x]
  PROVE  \A U \in SUBSET S, V \in SUBSET T : U \subseteq V => g[U] <= k[V]
<1> DEFINE G == {V \in SUBSET T : \A U \in SUBSET V : U \in SUBSET S => g[U] <= k[V]}
<1>1. {} \in G
  <2>1. g[{}] = 0 /\ k[{}] = 0
    BY DEF IsSum
  <2>2. \A U \in SUBSET {} : U = {}
    OBVIOUS
  <2> QED
    BY <2>1, <2>2
<1>2. ASSUME NEW V \in SUBSET T, V # {}, \A W \in SUBSET V : W # V => W \in G PROVE V \in G
  <2> SUFFICES ASSUME NEW U \in SUBSET V, U \in SUBSET S PROVE g[U] <= k[V]
    OBVIOUS
  <2> DEFINE x == b[V]
  <2>1. x \in V /\ k[V] = h[x] + k[V \ {x}]
    BY <1>2 DEF Picker, IsSum
  <2> HIDE DEF x
  <2>2. V \ {x} \in G
    BY <1>2, <2>1
  <2>3. h[x] \in Nat /\ k[V \ {x}] \in Nat /\ g[U] \in Nat
    BY <2>1 DEF IsSum
  <2>4. CASE x \notin U
    <3>1. g[U] <= k[V \ {x}]
      BY <2>2, <2>4
    <3> QED
      BY <2>1, <2>3, <3>1
  <2>5. CASE x \in U
    <3>1. g[U \ {x}] <= k[V \ {x}]
      BY <2>2, <2>5
    <3>2. g[(U \ {x}) \union {x}] = g[U \ {x}] + f[x]
      <4> DEFINE W == U \ {x}
      <4>1. W \in SUBSET S /\ x \in S \ W
        BY <2>5
      <4> HIDE DEF W, G
      <4>2. g[W \union {x}] = g[W] + f[x]
        BY <4>1, SumAdds
      <4> QED
        BY <4>2 DEF W
    <3>3. (U \ {x}) \union {x} = U
      BY <2>5
    <3>4. f[x] \in Nat /\ g[U \ {x}] \in Nat
      BY <2>5 DEF IsSum
    <3>5. g[U] = g[U \ {x}] + f[x]
      BY <3>2, <3>3
    <3>6. h[x] \in Nat /\ k[V \ {x}] \in Nat /\ k[V] = h[x] + k[V \ {x}]
      BY <2>1, <2>3
    <3>7. f[x] <= h[x]
      BY <2>5
    <3> HIDE DEF G
    <3> QED
      BY <3>1, <3>4, <3>5, <3>6, <3>7
  <2> QED
    BY <2>4, <2>5
<1>3. G = SUBSET T
  <2>1. G \subseteq SUBSET T
    OBVIOUS
  <2> HIDE DEF G
  <2> QED
    BY <1>1, <1>2, <2>1, SubsetsOneByOne
<1> QED
  BY <1>3

(* What the folds of the model compute are such sums.                        *)
Picks(S) == [U \in SUBSET S |-> CHOOSE x \in U : TRUE]

LEMMA PicksElements == ASSUME NEW S PROVE Picker(Picks(S), S)
BY DEF Picker, Picks

NoLess(g, S, k, T) == \A U \in SUBSET S, V \in SUBSET T : U \subseteq V => g[U] <= k[V]

LEMMA SumsCompare ==
  ASSUME NEW S, IsFiniteSet(S), NEW f \in [S -> Nat], NEW g, IsSum(f, Picks(S), S, g),
         NEW T, IsFiniteSet(T), NEW h \in [T -> Nat], NEW k, IsSum(h, Picks(T), T, k),
         \A x \in S \intersect T : f[x] <= h[x]
  PROVE  NoLess(g, S, k, T)
<1>1. Picker(Picks(S), S) /\ Picker(Picks(T), T)
  BY PicksElements
<1>2. (\A x \in S : f[x] \in Nat) /\ (\A x \in T : h[x] \in Nat)
  OBVIOUS
<1> QED
  BY <1>1, <1>2, SumGrows DEF NoLess

(* A sum taken in the order CHOOSE picks the elements. *)
AnyOrder(f, S, g) ==
  g = [U \in SUBSET S |->
         IF U = {} THEN 0 ELSE f[CHOOSE x \in U : TRUE] + g[U \ {CHOOSE x \in U : TRUE}]]

LEMMA AnyOrderIsSum ==
  ASSUME NEW S, IsFiniteSet(S), NEW f \in [S -> Nat]
  PROVE  /\ \E g : AnyOrder(f, S, g)
         /\ \A g : AnyOrder(f, S, g) => IsSum(f, Picks(S), S, g)
<1>1. \A U \in SUBSET S : U # {} => Picks(S)[U] = (CHOOSE x \in U : TRUE)
  BY DEF Picks
<1>2. PICK g : IsSum(f, Picks(S), S, g)
  BY PicksElements, SumExists
<1>3. AnyOrder(f, S, g)
  <2>1. \A U \in SUBSET S : U # {} =>
          g[U] = f[CHOOSE x \in U : TRUE] + g[U \ {CHOOSE x \in U : TRUE}]
    BY <1>1, <1>2 DEF IsSum
  <2>2. g \in [SUBSET S -> Nat] /\ g[{}] = 0
    BY <1>2 DEF IsSum
  <2> QED
    BY <2>1, <2>2 DEF AnyOrder
<1>4. ASSUME NEW h, AnyOrder(f, S, h) PROVE IsSum(f, Picks(S), S, h)
  <2>1. h[{}] = 0 /\ DOMAIN h = SUBSET S /\ h = [U \in SUBSET S |-> h[U]]
    BY <1>4 DEF AnyOrder
  <2>2. \A U \in SUBSET S : U # {} => h[U] = f[Picks(S)[U]] + h[U \ {Picks(S)[U]}]
    BY <1>1, <1>4 DEF AnyOrder
  <2> QED
    BY <2>1, <2>2, PicksElements, Sums
<1> QED
  BY <1>3, <1>4

LEMMA LargestOfIsSum ==
  ASSUME NEW rows, NEW S, IsFiniteSet(S), \A i \in S : Largest(rows[i].items) \in Nat
  PROVE  \E g : IsSum([i \in S |-> Largest(rows[i].items)], Picks(S), S, g) /\ LargestOf(rows, S) = g[S]
<1> DEFINE f == [i \in S |-> Largest(rows[i].items)]
           Fold(g) == g = [U \in SUBSET S |->
                             IF U = {} THEN 0
                             ELSE Largest(rows[CHOOSE x \in U : TRUE].items) + g[U \ {CHOOSE x \in U : TRUE}]]
           C == CHOOSE g : Fold(g)
<1>1. \A U \in SUBSET S : U # {} =>
        f[CHOOSE x \in U : TRUE] = Largest(rows[CHOOSE x \in U : TRUE].items)
  OBVIOUS
<1>2. \A g : Fold(g) <=> AnyOrder(f, S, g)
  BY <1>1 DEF AnyOrder
<1>3. f \in [S -> Nat]
  OBVIOUS
<1> HIDE DEF f, Fold
<1>4. \E g : Fold(g)
  BY <1>2, <1>3, AnyOrderIsSum
<1>5. Fold(C)
  BY <1>4
<1>6. LargestOf(rows, S) = C[S]
  BY DEF LargestOf, MapThenSumSet, MapThenFoldSet, Fold
<1> HIDE DEF C
<1> QED
  BY <1>2, <1>3, <1>5, <1>6, AnyOrderIsSum DEF f

LEMMA QuantitiesIsSum ==
  ASSUME NEW rows, NEW S, IsFiniteSet(S), \A i \in S : Total(rows[i].items) \in Nat
  PROVE  \E g : IsSum([i \in S |-> Total(rows[i].items)], Picks(S), S, g) /\ Quantities(rows, S) = g[S]
<1> DEFINE f == [i \in S |-> Total(rows[i].items)]
           Fold(g) == g = [U \in SUBSET S |->
                             IF U = {} THEN 0
                             ELSE Total(rows[CHOOSE x \in U : TRUE].items) + g[U \ {CHOOSE x \in U : TRUE}]]
           C == CHOOSE g : Fold(g)
<1>1. \A U \in SUBSET S : U # {} =>
        f[CHOOSE x \in U : TRUE] = Total(rows[CHOOSE x \in U : TRUE].items)
  OBVIOUS
<1>2. \A g : Fold(g) <=> AnyOrder(f, S, g)
  BY <1>1 DEF AnyOrder
<1>3. f \in [S -> Nat]
  OBVIOUS
<1> HIDE DEF f, Fold
<1>4. \E g : Fold(g)
  BY <1>2, <1>3, AnyOrderIsSum
<1>5. Fold(C)
  BY <1>4
<1>6. Quantities(rows, S) = C[S]
  BY DEF Quantities, MapThenSumSet, MapThenFoldSet, Fold
<1> HIDE DEF C
<1> QED
  BY <1>2, <1>3, <1>5, <1>6, AnyOrderIsSum DEF f

(* The quantities of the items, the last one added last. *)
LEMMA TotalCovers ==
  ASSUME NEW items \in Seq(Nat)
  PROVE  Total(items) \in Nat /\ \A k \in DOMAIN items : items[k] <= Total(items)
<1> DEFINE S == DOMAIN items
           last == [U \in SUBSET S |-> Max(U)]
           Fold(g) == g = [U \in SUBSET S |->
                             IF U = {} THEN 0 ELSE g[U \ {Max(U)}] + items[Max(U)]]
           C == CHOOSE g : Fold(g)
<1>1. IsFiniteSet(S) /\ S \subseteq Nat /\ \A x \in S : items[x] \in Nat
  <2>1. S = 1 .. Len(items) /\ Len(items) \in Nat /\ \A x \in S : items[x] \in Nat
    OBVIOUS
  <2>2. IsFiniteSet(1 .. Len(items))
    BY <2>1, FS_Interval
  <2> HIDE DEF S
  <2> QED
    BY <2>1, <2>2
<1>2. \A U \in SUBSET S : U # {} => Max(U) \in U /\ last[U] = Max(U)
  BY <1>1, FS_Subset, HasLargest
<1>3. Picker(last, S)
  BY <1>2 DEF Picker
<1> HIDE DEF S, last
<1>4. PICK g : IsSum(items, last, S, g)
  BY <1>1, <1>3, SumExists
<1>5. Fold(g)
  <2>1. ASSUME NEW U \in SUBSET S, U # {} PROVE g[U] = g[U \ {Max(U)}] + items[Max(U)]
    <3>1. g[U] = items[Max(U)] + g[U \ {Max(U)}]
      BY <1>2, <1>4, <2>1 DEF IsSum
    <3>2. items[Max(U)] \in Nat /\ g[U \ {Max(U)}] \in Nat
      BY <1>1, <1>2, <1>4, <2>1 DEF IsSum
    <3> QED
      BY <3>1, <3>2
  <2>2. g \in [SUBSET S -> Nat] /\ g[{}] = 0
    BY <1>4 DEF IsSum
  <2> QED
    BY <2>1, <2>2
<1>6. Fold(C)
  <2> HIDE DEF Fold
  <2> QED
    BY <1>5
<1>7. Total(items) = C[S]
  BY DEF Total, FoldLeft, MapThenFoldSet, S
<1> HIDE DEF C
<1>8. IsSum(items, last, S, C)
  <2>1. C[{}] = 0 /\ DOMAIN C = SUBSET S /\ C = [U \in SUBSET S |-> C[U]]
    BY <1>6
  <2>2. \A U \in SUBSET S : U # {} => C[U] = C[U \ {last[U]}] + items[last[U]]
    BY <1>2, <1>6
  <2> QED
    BY <1>1, <1>3, <2>1, <2>2, Sums
<1>9. C[S] \in Nat /\ \A k \in S : items[k] <= C[S]
  BY <1>1, <1>3, <1>8, SumCovers
<1> QED
  BY <1>7, <1>9 DEF S

LEMMA LargestItem ==
  ASSUME NEW items \in Seq(Nat)
  PROVE  /\ Largest(items) \in Nat /\ Largest(items) <= Total(items)
         /\ Largest(items) = 0 \/ \E k \in DOMAIN items : Largest(items) = items[k]
<1> DEFINE Q == {items[k] : k \in DOMAIN items}
<1>1. IsFiniteSet(Q)
  <2>1. DOMAIN items = 1 .. Len(items) /\ Len(items) \in Nat
    OBVIOUS
  <2>2. IsFiniteSet(DOMAIN items)
    BY <2>1, FS_Interval
  <2>3. [k \in DOMAIN items |-> items[k]] \in Surjection(DOMAIN items, Q)
    BY DEF Surjection
  <2> QED
    BY <2>2, <2>3, FS_Surjection
<1>2. IsFiniteSet({0} \union Q) /\ {0} \union Q \subseteq Nat
  <2>1. Q \subseteq Nat
    OBVIOUS
  <2> HIDE DEF Q
  <2> QED
    <3>1. IsFiniteSet({0})
      BY FS_Singleton
    <3>2. IsFiniteSet({0} \union Q)
      BY <1>1, <3>1, FS_Union
    <3> QED
      BY <2>1, <3>2
<1>3. Largest(items) \in {0} \union Q
  <2> HIDE DEF Q
  <2>1. Max({0} \union Q) \in {0} \union Q
    BY <1>2, HasLargest
  <2> QED
    BY <2>1 DEF Largest, Q
<1> QED
  BY <1>3, TotalCovers

-----------------------------------------------------------------------------
(* Quotas.  A capacity, a slot's capacity and "one booking of a service per *)
(* customer and day" are the same thing: a set of rows of which no more than *)
(* a number may be in the table, not counting those a late write revived.   *)

KeptRows(d) == {b \in BookingRows : b.status = "open" /\ ~b.revived /\ b.day = d}

AvailabilityRows(d, s) ==
  {b \in KeptRows(d) : b.service = s.service /\ (b.slot = NoSlot <=> s.slot = NoSlot)}
SlotRows(d, t)        == {b \in KeptRows(d) : b.slot = t}
CustomerRows(d, c, v) == {b \in KeptRows(d) : b.customer = c /\ b.service = v}

Quotas ==
  {[rows |-> AvailabilityRows(d, s), cap |-> AvailabilityCapacity(s)] : d \in Days, s \in Selections}
  \union {[rows |-> SlotRows(d, t), cap |-> Capacity[t]] : d \in Days, t \in Slots}
  \union {[rows |-> CustomerRows(d, c, v), cap |-> 1] : d \in Days, c \in Customers, v \in Services}

(* The rows of a table that are in R. *)
Taking(rows, R) == {i \in DOMAIN rows : rows[i] \in R}

LEMMA QuotaCases ==
  ASSUME NEW q \in Quotas
  PROVE  \/ \E d \in Days, s \in Selections :
              q.rows = AvailabilityRows(d, s) /\ q.cap = AvailabilityCapacity(s)
         \/ \E d \in Days, t \in Slots : q.rows = SlotRows(d, t) /\ q.cap = Capacity[t]
         \/ \E d \in Days, c \in Customers, v \in Services :
              q.rows = CustomerRows(d, c, v) /\ q.cap = 1
BY DEF Quotas

LEMMA QuotaCap == ASSUME NEW q \in Quotas PROVE q.cap \in Nat
<1>1. ASSUME NEW s \in Selections PROVE AvailabilityCapacity(s) \in Nat
  BY AvailabilityAssumption DEF AvailabilityCapacity, Selections
<1>2. \A t \in Slots : Capacity[t] \in Nat
  BY AvailabilityAssumption
<1> QED
  BY <1>1, <1>2, QuotaCases

LEMMA SelectionFields ==
  ASSUME NEW s \in Selections
  PROVE  /\ s.service \in Services /\ s.slot \in Slots \union {NoSlot}
         /\ s.items \in Orders \union {<<>>}
         /\ s.slot # NoSlot => SlotService[s.slot] = s.service
BY DEF Selections

LEMMA RowTyped ==
  ASSUME NEW c \in Customers, NEW d \in Days, NEW w \in Windows, NEW s \in Selections
  PROVE  Row(c, d, w, s) \in BookingRows
BY SelectionFields DEF Row, BookingRows

LEMMA TakingFinite ==
  ASSUME NEW rows \in Seq(BookingRows), NEW R
  PROVE  /\ IsFiniteSet(Taking(rows, R)) /\ Cardinality(Taking(rows, R)) \in Nat
         /\ \A T \in SUBSET DOMAIN rows : IsFiniteSet(T) /\ Cardinality(T) \in Nat
<1>1. DOMAIN rows = 1 .. Len(rows) /\ Len(rows) \in Nat
  OBVIOUS
<1>2. IsFiniteSet(DOMAIN rows)
  BY <1>1, FS_Interval
<1>3. \A T \in SUBSET DOMAIN rows : IsFiniteSet(T) /\ Cardinality(T) \in Nat
  BY <1>2, FS_Subset, FS_CardinalityType
<1>4. Taking(rows, R) \in SUBSET DOMAIN rows
  BY DEF Taking
<1> QED
  BY <1>3, <1>4

(* One more row takes one place in the sets it is in. *)
LEMMA AppendKeepsQuota ==
  ASSUME NEW rows \in Seq(BookingRows), NEW r \in BookingRows, NEW R, NEW cap \in Nat,
         Cardinality(Taking(rows, R)) <= cap,
         r \in R => Cardinality(Taking(rows, R)) < cap
  PROVE  Cardinality(Taking(Append(rows, r), R)) <= cap
<1> DEFINE T == Taking(rows, R)
           new == Append(rows, r)
           n == Len(rows) + 1
<1>1. /\ DOMAIN rows = 1 .. Len(rows) /\ Len(rows) \in Nat /\ DOMAIN new = 1 .. n
      /\ new[n] = r /\ \A i \in DOMAIN rows : new[i] = rows[i]
  OBVIOUS
<1>2. Taking(new, R) = IF r \in R THEN T \union {n} ELSE T
  <2> HIDE DEF new
  <2>1. DOMAIN new = DOMAIN rows \union {n}
    BY <1>1
  <2> QED
    BY <1>1, <2>1 DEF Taking
<1>3. IsFiniteSet(T) /\ Cardinality(T) \in Nat
  BY TakingFinite
<1> HIDE DEF T, n, new
<1>4. Cardinality(T) <= cap /\ (r \in R => Cardinality(T) < cap)
  BY DEF T
<1>5. Cardinality(T \union {n}) <= Cardinality(T) + 1
  <2>1. Cardinality(T \union {n}) = IF n \in T THEN Cardinality(T) ELSE Cardinality(T) + 1
    BY ONLY <1>3, FS_AddElement
  <2> QED
    BY <1>3, <2>1
<1>6. Cardinality(Taking(new, R)) <= cap
  <2>1. CASE r \in R
    <3>1. Taking(new, R) = T \union {n}
      BY <1>2, <2>1
    <3>2. IsFiniteSet(T \union {n}) /\ Cardinality(T \union {n}) \in Nat
      BY <1>3, FS_AddElement, FS_CardinalityType
    <3> QED
      BY <1>3, <1>4, <1>5, <2>1, <3>1, <3>2
  <2>2. CASE r \notin R
    BY <1>2, <1>4, <2>2
  <2> QED
    BY <2>1, <2>2
<1> QED
  BY <1>6 DEF new

(* The quantities of the kept bookings of a service on a day, each order     *)
(* counted by its largest item.                                              *)
ServiceRows(d, v) == {b \in KeptRows(d) : b.service = v}
Load(rows, d, v)  == LargestOf(rows, Taking(rows, ServiceRows(d, v)))

LEMMA RowItems ==
  ASSUME NEW b \in BookingRows
  PROVE  /\ b.items \in Seq(Nat) /\ Largest(b.items) \in Nat /\ Total(b.items) \in Nat
         /\ Largest(b.items) <= Total(b.items)
<1>1. b.items \in Orders \union {<<>>}
  BY DEF BookingRows
<1>2. \A x \in Seq(Nat \ {0}) : x \in Seq(Nat)
  OBVIOUS
<1>3. b.items \in Seq(Nat)
  <2>1. CASE b.items \in Orders
    BY <1>2, <2>1, AvailabilityAssumption
  <2>2. CASE b.items = <<>>
    BY <2>2
  <2> QED
    BY <1>1, <2>1, <2>2
<1> QED
  BY <1>3, LargestItem, TotalCovers

LEMMA LargestOfGrows ==
  ASSUME NEW rows \in Seq(BookingRows), NEW S \in SUBSET DOMAIN rows,
         NEW table \in Seq(BookingRows), NEW T \in SUBSET DOMAIN table,
         S \subseteq T, \A i \in S : rows[i].items = table[i].items
  PROVE  LargestOf(rows, S) \in Nat /\ LargestOf(rows, S) <= LargestOf(table, T)
<1> DEFINE f == [i \in S |-> Largest(rows[i].items)]
           h == [i \in T |-> Largest(table[i].items)]
<1>1. IsFiniteSet(S) /\ IsFiniteSet(T)
  BY TakingFinite
<1>2. /\ \A i \in S : rows[i] \in BookingRows /\ Largest(rows[i].items) \in Nat
      /\ \A i \in T : table[i] \in BookingRows /\ Largest(table[i].items) \in Nat
  BY RowItems
<1>3. PICK g : IsSum(f, Picks(S), S, g) /\ LargestOf(rows, S) = g[S]
  BY <1>1, <1>2, LargestOfIsSum
<1>4. PICK k : IsSum(h, Picks(T), T, k) /\ LargestOf(table, T) = k[T]
  BY <1>1, <1>2, LargestOfIsSum
<1>5. f \in [S -> Nat] /\ h \in [T -> Nat]
  BY <1>2
<1>6. \A i \in S \intersect T : f[i] <= h[i]
  BY <1>2
<1> HIDE DEF f, h
<1>7. NoLess(g, S, k, T)
  BY <1>1, <1>3, <1>4, <1>5, <1>6, SumsCompare
<1>8. g[S] <= k[T] /\ g[S] \in Nat
  BY <1>3, <1>7 DEF IsSum, NoLess
<1> QED
  BY <1>3, <1>4, <1>8

(* An order more adds its largest item.                                      *)
LEMMA LargestOfAdds ==
  ASSUME NEW rows \in Seq(BookingRows), NEW T \in SUBSET DOMAIN rows, NEW n \in DOMAIN rows \ T
  PROVE  LargestOf(rows, T \union {n}) <= LargestOf(rows, T) + Largest(rows[n].items)
<1> DEFINE S == T \union {n}
           f == [i \in S |-> Largest(rows[i].items)]
           h == [i \in T |-> Largest(rows[i].items)]
<1>1. IsFiniteSet(S) /\ IsFiniteSet(T)
  BY TakingFinite
<1>2. \A i \in S : rows[i] \in BookingRows /\ Largest(rows[i].items) \in Nat
  BY RowItems
<1>3. PICK g : IsSum(f, Picks(S), S, g) /\ LargestOf(rows, S) = g[S]
  BY <1>1, <1>2, LargestOfIsSum
<1>4. PICK k : IsSum(h, Picks(T), T, k) /\ LargestOf(rows, T) = k[T]
  BY <1>1, <1>2, LargestOfIsSum
<1>5. f \in [S -> Nat] /\ h \in [T -> Nat] /\ f[n] = Largest(rows[n].items)
  BY <1>2
<1>6. \A i \in S \intersect T : f[i] <= h[i]
  BY <1>2
<1>7. T \in SUBSET S /\ n \in S \ T /\ T \union {n} = S
  OBVIOUS
<1> HIDE DEF f, h, S
<1>8. NoLess(g, S, k, T)
  BY <1>1, <1>3, <1>4, <1>5, <1>6, SumsCompare
<1>9. g[T] <= k[T] /\ g[T] \in Nat /\ k[T] \in Nat
  BY <1>3, <1>4, <1>7, <1>8 DEF IsSum, NoLess
<1>10. g[T \union {n}] = g[T] + f[n]
  BY <1>1, <1>3, <1>5, <1>7, PicksElements, SumAdds
<1>11. g[S] = g[T] + f[n] /\ f[n] \in Nat
  BY <1>5, <1>7, <1>10
<1> QED
  BY <1>3, <1>4, <1>5, <1>9, <1>11 DEF S

LEMMA AppendKeepsLoad ==
  ASSUME NEW rows \in Seq(BookingRows), NEW r \in BookingRows, NEW d, NEW v, NEW cap \in Nat,
         Load(rows, d, v) <= cap,
         r \in ServiceRows(d, v) => Load(rows, d, v) + Largest(r.items) <= cap
  PROVE  Load(Append(rows, r), d, v) <= cap
<1> DEFINE R == ServiceRows(d, v)
           T == Taking(rows, R)
           new == Append(rows, r)
           n == Len(rows) + 1
<1>1. /\ DOMAIN new = DOMAIN rows \union {n} /\ n \notin DOMAIN rows /\ new \in Seq(BookingRows)
      /\ new[n] = r /\ \A i \in DOMAIN rows : new[i] = rows[i]
  OBVIOUS
<1> HIDE DEF new, R, n
<1>2. Taking(new, R) = IF r \in R THEN T \union {n} ELSE T
  BY <1>1 DEF Taking
<1>3. T \in SUBSET DOMAIN rows /\ T \in SUBSET DOMAIN new /\ n \in DOMAIN new \ T
  BY <1>1 DEF Taking
<1>4. \A i \in T : new[i].items = rows[i].items
  BY <1>1, <1>3
<1> HIDE DEF T
<1>5. LargestOf(new, T) <= LargestOf(rows, T) /\ LargestOf(new, T) \in Nat
  BY <1>1, <1>3, <1>4, LargestOfGrows
<1>6. LargestOf(rows, T) \in Nat
  BY <1>3, LargestOfGrows
<1>7. LargestOf(new, T \union {n}) <= LargestOf(new, T) + Largest(r.items)
  BY <1>1, <1>3, LargestOfAdds
<1>8. LargestOf(new, T \union {n}) \in Nat /\ Largest(r.items) \in Nat
  <2>1. T \union {n} \in SUBSET DOMAIN new
    BY <1>3
  <2> QED
    BY <1>1, <2>1, LargestOfGrows, RowItems
<1>9. /\ Load(rows, d, v) = LargestOf(rows, T)
      /\ Load(new, d, v) = LargestOf(new, Taking(new, R))
  BY DEF Load, T, R
<1>10. CASE r \in R
  <2>1. Load(new, d, v) = LargestOf(new, T \union {n})
    BY <1>2, <1>9, <1>10
  <2>2. LargestOf(rows, T) + Largest(r.items) <= cap
    BY <1>9, <1>10 DEF R
  <2> QED
    BY <1>5, <1>6, <1>7, <1>8, <2>1, <2>2 DEF new
<1>11. CASE r \notin R
  <2>1. Load(new, d, v) = LargestOf(new, T)
    BY <1>2, <1>9, <1>11
  <2> QED
    BY <1>5, <1>6, <1>9, <2>1 DEF new
<1> QED
  BY <1>10, <1>11

(* A table within all limits, and a row that may be added to a table.        *)
WithinLimits(rows) ==
  /\ rows \in Seq(BookingRows)
  /\ \A q \in Quotas : Cardinality(Taking(rows, q.rows)) <= q.cap
  /\ \A d \in Days, v \in Services : Load(rows, d, v) <= DailyCapacity[v]

Fits(rows, r) ==
  /\ \A q \in Quotas : r \in q.rows => Cardinality(Taking(rows, q.rows)) < q.cap
  /\ \A d \in Days, v \in Services :
       r \in ServiceRows(d, v) => Load(rows, d, v) + Largest(r.items) <= DailyCapacity[v]

LEMMA FitsAppends ==
  ASSUME NEW rows, WithinLimits(rows), NEW r \in BookingRows, Fits(rows, r)
  PROVE  WithinLimits(Append(rows, r))
<1>1. rows \in Seq(BookingRows) /\ Append(rows, r) \in Seq(BookingRows)
  BY DEF WithinLimits
<1>2. ASSUME NEW q \in Quotas PROVE Cardinality(Taking(Append(rows, r), q.rows)) <= q.cap
  BY <1>1, QuotaCap, AppendKeepsQuota DEF WithinLimits, Fits
<1>3. ASSUME NEW d \in Days, NEW v \in Services
      PROVE  Load(Append(rows, r), d, v) <= DailyCapacity[v]
  <2>1. DailyCapacity[v] \in Nat
    BY AvailabilityAssumption
  <2>2. /\ Load(rows, d, v) <= DailyCapacity[v]
        /\ r \in ServiceRows(d, v) => Load(rows, d, v) + Largest(r.items) <= DailyCapacity[v]
    BY DEF WithinLimits, Fits
  <2> QED
    BY <1>1, <2>1, <2>2, AppendKeepsLoad
<1> QED
  BY <1>1, <1>2, <1>3 DEF WithinLimits

(* A slot belongs to one service. *)
SlotOfService(r) == r.slot # NoSlot => SlotService[r.slot] = r.service

(* Rows of different services share no limit.                                *)
LEMMA OtherServicesFit ==
  ASSUME NEW rows \in Seq(BookingRows), NEW x \in BookingRows, NEW r \in BookingRows,
         Fits(rows, r), x.service # r.service, SlotOfService(x), SlotOfService(r)
  PROVE  Fits(Append(rows, x), r)
<1> DEFINE new == Append(rows, x)
           n == Len(rows) + 1
<1>1. /\ DOMAIN new = DOMAIN rows \union {n} /\ n \notin DOMAIN rows /\ new \in Seq(BookingRows)
      /\ new[n] = x /\ \A i \in DOMAIN rows : new[i] = rows[i]
  OBVIOUS
<1> HIDE DEF new, n
<1>2. ASSUME NEW R, x \notin R PROVE Taking(new, R) = Taking(rows, R)
  BY <1>1, <1>2 DEF Taking
<1>3. ASSUME NEW q \in Quotas, r \in q.rows PROVE x \notin q.rows
  <2>1. CASE \E d \in Days, s \in Selections : q.rows = AvailabilityRows(d, s)
    BY <1>3, <2>1 DEF AvailabilityRows
  <2>2. CASE \E d \in Days, t \in Slots : q.rows = SlotRows(d, t)
    BY <1>3, <2>2, AvailabilityAssumption DEF SlotRows, SlotOfService
  <2>3. CASE \E d \in Days, c \in Customers, v \in Services : q.rows = CustomerRows(d, c, v)
    BY <1>3, <2>3 DEF CustomerRows
  <2> QED
    BY <2>1, <2>2, <2>3, QuotaCases
<1>4. ASSUME NEW q \in Quotas, r \in q.rows PROVE Cardinality(Taking(new, q.rows)) < q.cap
  BY <1>2, <1>3, <1>4 DEF Fits
<1>5. ASSUME NEW d \in Days, NEW v \in Services, r \in ServiceRows(d, v)
      PROVE  Load(new, d, v) + Largest(r.items) <= DailyCapacity[v]
  <2> DEFINE T == Taking(rows, ServiceRows(d, v))
  <2>1. Taking(new, ServiceRows(d, v)) = T
    BY <1>2, <1>5 DEF ServiceRows
  <2>2. T \in SUBSET DOMAIN rows /\ T \in SUBSET DOMAIN new /\ \A i \in T : new[i].items = rows[i].items
    BY <1>1 DEF Taking
  <2>3. Load(new, d, v) = LargestOf(new, T) /\ Load(rows, d, v) = LargestOf(rows, T)
    BY <2>1 DEF Load
  <2> HIDE DEF T
  <2>4. LargestOf(new, T) <= LargestOf(rows, T) /\ LargestOf(new, T) \in Nat
    BY <1>1, <2>2, LargestOfGrows
  <2>5. LargestOf(rows, T) \in Nat
    BY <2>2, LargestOfGrows
  <2>6. LargestOf(rows, T) + Largest(r.items) <= DailyCapacity[v]
    BY <1>5, <2>3 DEF Fits
  <2>7. Largest(r.items) \in Nat /\ DailyCapacity[v] \in Nat
    BY RowItems, AvailabilityAssumption
  <2> QED
    BY <2>3, <2>4, <2>5, <2>6, <2>7
<1> QED
  BY <1>4, <1>5 DEF Fits, new

(* What the transactions check is enough for every quota, *)
LEMMA AdmittedFitsQuotas ==
  ASSUME NEW rows \in Seq(BookingRows), NEW counted, "open" \in counted,
         NEW c \in Customers, NEW d \in Days, NEW w \in Windows, NEW s \in Selections,
         Admits(rows, counted, c, d, w, s),
         NEW q \in Quotas, Row(c, d, w, s) \in q.rows
  PROVE  Cardinality(Taking(rows, q.rows)) < q.cap
<1> DEFINE r == Row(c, d, w, s)
           T == Taking(rows, q.rows)
           active == Active(rows, counted, d)
<1>1. /\ r.customer = c /\ r.day = d /\ r.service = s.service /\ r.slot = s.slot
  BY DEF Row
<1>2. /\ ~Duplicate(rows, active, c, s) /\ FitsAvailability(rows, active, s)
      /\ FitsSlot(rows, active, s)
  BY DEF Admits
<1>3. r \in q.rows
  OBVIOUS
<1>4. active \subseteq DOMAIN rows /\ T \subseteq DOMAIN rows
  BY DEF Active, Taking
<1> HIDE DEF r
<1>5. \A i \in DOMAIN rows : rows[i] \in KeptRows(d) => i \in active
  BY DEF KeptRows, Active
<1>6. ASSUME NEW big \in SUBSET DOMAIN rows, T \subseteq big, NEW cap \in Nat, Cardinality(big) < cap
      PROVE  Cardinality(T) < cap
  <2>1. IsFiniteSet(big) /\ Cardinality(big) \in Nat /\ Cardinality(T) \in Nat
    BY TakingFinite
  <2>2. Cardinality(T) <= Cardinality(big)
    BY <1>6, <2>1, FS_Subset
  <2> QED
    BY <1>6, <2>1, <2>2
<1>7. ASSUME NEW d2 \in Days, NEW s2 \in Selections,
             q.rows = AvailabilityRows(d2, s2), q.cap = AvailabilityCapacity(s2)
      PROVE  Cardinality(T) < q.cap
  <2>1. d2 = d /\ s2.service = s.service /\ (s2.slot = NoSlot <=> s.slot = NoSlot)
    BY <1>1, <1>3, <1>7 DEF AvailabilityRows, KeptRows
  <2>2. AvailabilityCapacity(s2) = AvailabilityCapacity(s)
    BY <2>1 DEF AvailabilityCapacity
  <2>3. T \subseteq OnAvailability(rows, active, s)
    BY <1>5, <1>7, <2>1 DEF Taking, AvailabilityRows, OnAvailability
  <2>4. OnAvailability(rows, active, s) \subseteq DOMAIN rows
    BY <1>4 DEF OnAvailability
  <2> QED
    BY <1>2, <1>6, <1>7, <2>2, <2>3, <2>4, QuotaCap DEF FitsAvailability
<1>8. ASSUME NEW d2 \in Days, NEW t \in Slots, q.rows = SlotRows(d2, t), q.cap = Capacity[t]
      PROVE  Cardinality(T) < q.cap
  <2>1. d2 = d /\ s.slot = t /\ t # NoSlot
    BY <1>1, <1>3, <1>8, AvailabilityAssumption DEF SlotRows, KeptRows
  <2>2. T \subseteq OnSlot(rows, active, s)
    BY <1>5, <1>8, <2>1 DEF Taking, SlotRows, OnSlot
  <2>3. OnSlot(rows, active, s) \subseteq DOMAIN rows
    BY <1>4 DEF OnSlot
  <2> QED
    BY <1>2, <1>6, <1>8, <2>1, <2>2, <2>3, QuotaCap DEF FitsSlot
<1>9. ASSUME NEW d2 \in Days, NEW c2 \in Customers, NEW v \in Services,
             q.rows = CustomerRows(d2, c2, v), q.cap = 1
      PROVE  Cardinality(T) < q.cap
  <2>1. d2 = d /\ c2 = c /\ v = s.service
    BY <1>1, <1>3, <1>9 DEF CustomerRows, KeptRows
  <2>2. T = {}
    BY <1>2, <1>5, <1>9, <2>1 DEF Taking, CustomerRows, Duplicate
  <2> QED
    BY <1>9, <2>2, FS_EmptySet
<1> QED
  BY <1>7, <1>8, <1>9, QuotaCases

(* and for the daily quantity: all items of the bookings that count were     *)
(* added up, each kept order by at least its largest item.                   *)
LEMMA AdmittedFitsLoad ==
  ASSUME NEW rows, WithinLimits(rows), NEW counted, "open" \in counted,
         NEW c \in Customers, NEW d \in Days, NEW w \in Windows, NEW s \in Selections,
         Admits(rows, counted, c, d, w, s)
  PROVE  Load(rows, d, s.service) + Largest(s.items) <= DailyCapacity[s.service]
<1> DEFINE active == Active(rows, counted, d)
           v == s.service
           T == Taking(rows, ServiceRows(d, v))
           A == {i \in active : rows[i].service = v}
<1>1. rows \in Seq(BookingRows) /\ v \in Services /\ DailyCapacity[v] \in Nat
  BY SelectionFields, AvailabilityAssumption DEF WithinLimits
<1>2. Row(c, d, w, s).items = s.items /\ Row(c, d, w, s) \in BookingRows
  BY RowTyped DEF Row
<1>3. s.items \in Seq(Nat)
  BY <1>2, RowItems
<1>4. /\ Largest(s.items) \in Nat
      /\ Largest(s.items) = 0 \/ \E k \in DOMAIN s.items : Largest(s.items) = s.items[k]
  BY <1>3, LargestItem
<1>5. T \subseteq A /\ A \in SUBSET DOMAIN rows /\ T \in SUBSET DOMAIN rows
  BY <1>1 DEF Taking, ServiceRows, KeptRows, Active
<1>6. \A k \in DOMAIN s.items : Quantities(rows, A) + s.items[k] <= DailyCapacity[v]
  BY DEF Admits, ItemsFit, Ordered
<1>7. Load(rows, d, v) = LargestOf(rows, T) /\ LargestOf(rows, T) <= DailyCapacity[v]
  BY <1>1 DEF Load, WithinLimits
<1> HIDE DEF A, T, v
<1>8. LargestOf(rows, T) \in Nat /\ Quantities(rows, A) \in Nat /\ LargestOf(rows, T) <= Quantities(rows, A)
  <2> DEFINE f == [i \in T |-> Largest(rows[i].items)]
             h == [i \in A |-> Total(rows[i].items)]
  <2>1. IsFiniteSet(T) /\ IsFiniteSet(A)
    BY <1>1, <1>5, TakingFinite
  <2>2. \A i \in A : /\ Largest(rows[i].items) \in Nat /\ Total(rows[i].items) \in Nat
                     /\ Largest(rows[i].items) <= Total(rows[i].items)
    BY <1>1, <1>5, RowItems
  <2>3. PICK g : IsSum(f, Picks(T), T, g) /\ LargestOf(rows, T) = g[T]
    BY <1>5, <2>1, <2>2, LargestOfIsSum
  <2>4. PICK k : IsSum(h, Picks(A), A, k) /\ Quantities(rows, A) = k[A]
    BY <2>1, <2>2, QuantitiesIsSum
  <2>5. f \in [T -> Nat] /\ h \in [A -> Nat]
    BY <1>5, <2>2
  <2>6. \A i \in T \intersect A : f[i] <= h[i]
    BY <2>2
  <2> HIDE DEF f, h
  <2>7. NoLess(g, T, k, A)
    BY <2>1, <2>3, <2>4, <2>5, <2>6, SumsCompare
  <2>8. g[T] <= k[A] /\ g[T] \in Nat /\ k[A] \in Nat
    BY <1>5, <2>3, <2>4, <2>7 DEF IsSum, NoLess
  <2> QED
    BY <2>3, <2>4, <2>8
<1>9. CASE Largest(s.items) = 0
  BY <1>1, <1>7, <1>8, <1>9 DEF v
<1>10. ASSUME NEW k \in DOMAIN s.items, Largest(s.items) = s.items[k]
       PROVE  LargestOf(rows, T) + Largest(s.items) <= DailyCapacity[v]
  <2>1. Quantities(rows, A) + Largest(s.items) <= DailyCapacity[v]
    BY <1>6, <1>10
  <2> QED
    BY <1>1, <1>4, <1>8, <2>1
<1> QED
  BY <1>4, <1>7, <1>9, <1>10 DEF v

LEMMA AdmittedFits ==
  ASSUME NEW rows, WithinLimits(rows), NEW counted, "open" \in counted,
         NEW c \in Customers, NEW d \in Days, NEW w \in Windows, NEW s \in Selections,
         Admits(rows, counted, c, d, w, s)
  PROVE  Fits(rows, Row(c, d, w, s))
<1>1. \A q \in Quotas : Row(c, d, w, s) \in q.rows => Cardinality(Taking(rows, q.rows)) < q.cap
  BY AdmittedFitsQuotas DEF WithinLimits
<1>2. ASSUME NEW d2 \in Days, NEW v \in Services, Row(c, d, w, s) \in ServiceRows(d2, v)
      PROVE  Load(rows, d2, v) + Largest(Row(c, d, w, s).items) <= DailyCapacity[v]
  <2>1. d2 = d /\ v = s.service /\ Row(c, d, w, s).items = s.items
    BY <1>2 DEF ServiceRows, KeptRows, Row
  <2>2. Load(rows, d, s.service) + Largest(s.items) <= DailyCapacity[s.service]
    BY AdmittedFitsLoad
  <2> HIDE DEF Row
  <2> QED
    BY <2>1, <2>2
<1> QED
  BY <1>1, <1>2 DEF Fits

(* The rows a request adds, one after the other. *)
Table(rows, k) == bookings \o SubSeq(rows, 1, k)

LEMMA OneByOne ==
  ASSUME bookings \in Seq(BookingRows), NEW rows \in Seq(BookingRows)
  PROVE  /\ Table(rows, 0) = bookings
         /\ Table(rows, Len(rows)) = bookings \o rows
         /\ \A k \in 1 .. Len(rows) : Table(rows, k) = Append(Table(rows, k - 1), rows[k])
<1>1. SubSeq(rows, 1, 0) = <<>> /\ SubSeq(rows, 1, Len(rows)) = rows
  OBVIOUS
<1>2. ASSUME NEW k \in 1 .. Len(rows) PROVE Table(rows, k) = Append(Table(rows, k - 1), rows[k])
  <2> DEFINE before == SubSeq(rows, 1, k - 1)
             r == rows[k]
  <2>1. before \in Seq(BookingRows) /\ r \in BookingRows
    OBVIOUS
  <2>2. SubSeq(rows, 1, k) = Append(before, r)
    OBVIOUS
  <2> HIDE DEF before, r
  <2>3. bookings \o Append(before, r) = Append(bookings \o before, r)
    BY <2>1
  <2> QED
    BY <2>2, <2>3 DEF Table, before, r
<1> QED
  BY <1>1, <1>2 DEF Table

LEMMA RequestedRows ==
  ASSUME NEW c \in Customers, NEW d \in Days, NEW w \in Windows, NEW sels \in Requested
  PROVE  LET rows == [k \in DOMAIN sels |-> Row(c, d, w, sels[k])]
         IN /\ rows \in Seq(BookingRows) /\ DOMAIN sels = 1 .. Len(rows) /\ Len(rows) \in Nat
            /\ Len(sels) = Len(rows)
            /\ \A k \in DOMAIN sels : sels[k] \in Selections
<1> DEFINE rows == [k \in DOMAIN sels |-> Row(c, d, w, sels[k])]
<1>1. PICK n \in 1 .. MaxServices : sels \in [1 .. n -> Selections]
  BY DEF Requested
<1>2. n \in Nat /\ DOMAIN sels = 1 .. n /\ Len(sels) = n /\ \A k \in DOMAIN sels : sels[k] \in Selections
  BY <1>1, AvailabilityAssumption
<1>3. \A k \in DOMAIN sels : rows[k] \in BookingRows
  BY <1>2, RowTyped
<1>4. rows \in Seq(BookingRows) /\ Len(rows) = n
  BY <1>2, <1>3
<1> QED
  BY <1>2, <1>4

LEMMA PlacedTyped == Placed => bookings \in Seq(BookingRows)
BY DEF Placed

LimitsHold == WithinLimits(bookings)

(* Each service of a createEvent is checked against the table with the rows  *)
(* of the services before it.                                                *)
LEMMA CreateEventLimits ==
  ASSUME LimitsHold, NEW c \in Customers, NEW d \in Days, NEW w \in Windows,
         NEW sels \in Requested, CreateEvent(c, d, w, sels)
  PROVE  LimitsHold'
<1> DEFINE rows == [k \in DOMAIN sels |-> Row(c, d, w, sels[k])]
           G == {n \in Nat : n <= Len(rows) => WithinLimits(Table(rows, n))}
<1>1. /\ rows \in Seq(BookingRows) /\ DOMAIN sels = 1 .. Len(rows) /\ Len(rows) \in Nat
      /\ \A k \in DOMAIN sels : sels[k] \in Selections /\ rows[k] = Row(c, d, w, sels[k])
  BY RequestedRows
<1>2. bookings \in Seq(BookingRows)
  BY DEF LimitsHold, WithinLimits
<1>3. /\ \A k \in DOMAIN sels :
           Admits(Table(rows, k - 1), ACTIVE_BOOKING_STATUSES, c, d, w, sels[k])
      /\ bookings' = bookings \o rows
  BY DEF CreateEvent, Table
<1> HIDE DEF rows
<1>4. 0 \in G
  BY <1>1, <1>2, OneByOne DEF LimitsHold
<1>5. ASSUME NEW n \in Nat, n \in G PROVE n + 1 \in G
  <2> SUFFICES ASSUME n + 1 <= Len(rows) PROVE WithinLimits(Table(rows, n + 1))
    OBVIOUS
  <2> DEFINE k == n + 1
  <2>1. k \in DOMAIN sels /\ k \in 1 .. Len(rows) /\ k - 1 = n
    BY <1>1
  <2>2. WithinLimits(Table(rows, n))
    BY <1>1, <1>5
  <2>3. Admits(Table(rows, n), ACTIVE_BOOKING_STATUSES, c, d, w, sels[k])
    BY <1>3, <2>1
  <2>4. Table(rows, k) = Append(Table(rows, n), rows[k])
    BY <1>1, <1>2, <2>1, OneByOne
  <2>5. sels[k] \in Selections /\ rows[k] = Row(c, d, w, sels[k]) /\ rows[k] \in BookingRows
    BY <1>1, <2>1
  <2> HIDE DEF k, G
  <2>6. Fits(Table(rows, n), rows[k])
    BY <2>2, <2>3, <2>5, AdmittedFits DEF ACTIVE_BOOKING_STATUSES
  <2>7. WithinLimits(Table(rows, k))
    BY <2>2, <2>4, <2>5, <2>6, FitsAppends
  <2> QED
    BY <2>7 DEF k
<1>6. Nat \subseteq G
  <2> HIDE DEF G
  <2> QED
    BY <1>4, <1>5, NatSets
<1>7. WithinLimits(Table(rows, Len(rows)))
  BY <1>1, <1>6
<1> QED
  BY <1>1, <1>2, <1>3, <1>7, OneByOne DEF LimitsHold, WithinLimits

LEMMA AddServiceLimits ==
  ASSUME LimitsHold, NEW i \in DOMAIN bookings, NEW s \in Selections, AddServiceToEvent(i, s)
  PROVE  LimitsHold'
<1> DEFINE b == bookings[i]
           r == Row(b.customer, b.day, b.window, s)
<1>1. b \in BookingRows
  BY DEF LimitsHold, WithinLimits
<1>2. b.customer \in Customers /\ b.day \in Days /\ b.window \in Windows
  BY <1>1 DEF BookingRows
<1>3. /\ Admits(bookings, ACTIVE_BOOKING_STATUSES, b.customer, b.day, b.window, s)
      /\ bookings' = Append(bookings, r)
  BY DEF AddServiceToEvent
<1> HIDE DEF b
<1>4. r \in BookingRows
  BY <1>2, RowTyped
<1>5. Fits(bookings, r)
  BY <1>2, <1>3, AdmittedFits DEF LimitsHold, ACTIVE_BOOKING_STATUSES
<1>6. WithinLimits(Append(bookings, r))
  BY <1>4, <1>5, FitsAppends DEF LimitsHold
<1> QED
  BY <1>3, <1>6 DEF LimitsHold, WithinLimits

(* The services of a package are checked before any of them is booked: it is *)
(* that they are different services that keeps them out of each other's way. *)
LEMMA PackageServicesDiffer ==
  ASSUME NEW sels \in Requested, WholePackage(sels),
         NEW j \in DOMAIN sels, NEW k \in DOMAIN sels, sels[j].service = sels[k].service
  PROVE  j = k
<1> DEFINE f == [i \in DOMAIN sels |-> sels[i].service]
<1>1. PICK n \in 1 .. MaxServices : sels \in [1 .. n -> Selections]
  BY DEF Requested
<1>2. n \in Nat /\ DOMAIN sels = 1 .. n /\ Len(sels) = n
  BY <1>1, AvailabilityAssumption
<1>3. IsFiniteSet(1 .. n) /\ Cardinality(1 .. n) = n
  BY <1>2, FS_Interval
<1>4. {sels[i].service : i \in DOMAIN sels} = PackageServices /\ Len(sels) = Cardinality(PackageServices)
  BY DEF WholePackage
<1>5. f \in Surjection(1 .. n, PackageServices)
  BY <1>2, <1>4 DEF Surjection
<1>6. Cardinality(1 .. n) = Cardinality(PackageServices)
  BY <1>2, <1>3, <1>4
<1>7. f[j] = f[k] /\ j \in 1 .. n /\ k \in 1 .. n
  BY <1>2
<1> HIDE DEF f
<1>8. f \in Injection(1 .. n, PackageServices)
  BY <1>3, <1>5, <1>6, FS_Surjection
<1>9. \A a, b \in 1 .. n : f[a] = f[b] => a = b
  BY <1>8 DEF Injection, IsInjective
<1> QED
  BY <1>7, <1>9

LEMMA BookPackageLimits ==
  ASSUME LimitsHold, NEW c \in Customers, NEW d \in Days, NEW w \in Windows,
         NEW sels \in Requested, BookPackageCommit(c, d, w, sels)
  PROVE  LimitsHold'
<1> DEFINE rows == [k \in DOMAIN sels |-> Row(c, d, w, sels[k])]
           Left(n) == \A k \in DOMAIN sels : k > n => Fits(Table(rows, n), rows[k])
           G == {n \in Nat : n <= Len(rows) => WithinLimits(Table(rows, n)) /\ Left(n)}
<1>1. /\ rows \in Seq(BookingRows) /\ DOMAIN sels = 1 .. Len(rows) /\ Len(rows) \in Nat
      /\ \A k \in DOMAIN sels : sels[k] \in Selections /\ rows[k] = Row(c, d, w, sels[k])
  BY RequestedRows
<1>2. bookings \in Seq(BookingRows)
  BY DEF LimitsHold, WithinLimits
<1>3. /\ \A k \in DOMAIN sels : Admits(bookings, PackageActiveStatuses, c, d, w, sels[k])
      /\ WholePackage(sels) /\ bookings' = bookings \o rows
  BY DEF BookPackageCommit
<1>4. ASSUME NEW k \in DOMAIN sels PROVE SlotOfService(rows[k]) /\ rows[k].service = sels[k].service
  <2>1. rows[k].slot = sels[k].slot /\ rows[k].service = sels[k].service
    BY DEF Row
  <2> QED
    BY <1>1, <2>1, SelectionFields DEF SlotOfService
<1> HIDE DEF rows
<1>5. ASSUME NEW j \in DOMAIN sels, NEW k \in DOMAIN sels, j # k
      PROVE  rows[j].service # rows[k].service
  BY <1>3, <1>4, <1>5, PackageServicesDiffer
<1>6. 0 \in G
  <2>1. Table(rows, 0) = bookings
    BY <1>1, <1>2, OneByOne
  <2>2. \A k \in DOMAIN sels : Fits(bookings, rows[k])
    BY <1>1, <1>3, AdmittedFits DEF LimitsHold, PackageActiveStatuses
  <2> QED
    BY <2>1, <2>2 DEF LimitsHold
<1>7. ASSUME NEW n \in Nat, n \in G PROVE n + 1 \in G
  <2> SUFFICES ASSUME n + 1 <= Len(rows) PROVE WithinLimits(Table(rows, n + 1)) /\ Left(n + 1)
    OBVIOUS
  <2> DEFINE m == n + 1
  <2>1. m \in DOMAIN sels /\ m \in 1 .. Len(rows) /\ m - 1 = n /\ m > n /\ m \in Nat
    BY <1>1
  <2>2. WithinLimits(Table(rows, n)) /\ Left(n)
    BY <1>1, <1>7
  <2>3. Table(rows, m) = Append(Table(rows, n), rows[m])
    BY <1>1, <1>2, <2>1, OneByOne
  <2>4. rows[m] \in BookingRows /\ Fits(Table(rows, n), rows[m])
    BY <1>1, <2>1, <2>2
  <2> HIDE DEF m, G
  <2>5. WithinLimits(Table(rows, m))
    BY <2>2, <2>3, <2>4, FitsAppends
  <2>6. ASSUME NEW k \in DOMAIN sels, k > m PROVE Fits(Table(rows, m), rows[k])
    <3>1. Fits(Table(rows, n), rows[k]) /\ rows[k] \in BookingRows /\ k # m
      BY <1>1, <2>1, <2>2, <2>6
    <3>2. rows[m].service # rows[k].service
      BY <1>5, <2>1, <3>1
    <3>3. SlotOfService(rows[m]) /\ SlotOfService(rows[k])
      BY <1>4, <2>1
    <3> QED
      BY <2>2, <2>3, <2>4, <3>1, <3>2, <3>3, OtherServicesFit DEF WithinLimits
  <2> QED
    BY <2>5, <2>6 DEF m
<1>8. Nat \subseteq G
  <2> HIDE DEF G
  <2> QED
    BY <1>6, <1>7, NatSets
<1>9. WithinLimits(Table(rows, Len(rows)))
  BY <1>1, <1>8
<1> QED
  BY <1>1, <1>2, <1>3, <1>9, OneByOne DEF LimitsHold, WithinLimits

(* A row the other modules change takes no place: it was open and is not any *)
(* more, or it comes back marked.                                            *)
LEMMA ChangesTakeNothing ==
  ASSUME bookings \in Seq(BookingRows), NEW S \in SUBSET DOMAIN bookings,
         NEW s \in {"open", "completed", "dead"}, BookingsChange(S, s),
         NEW R, \A b \in R : b.status = "open" /\ ~b.revived
  PROVE  /\ Taking(bookings', R) \subseteq Taking(bookings, R)
         /\ \A i \in Taking(bookings', R) : bookings'[i] = bookings[i]
<1>1. /\ \A i \in S : bookings[i].status # s
      /\ bookings' = [i \in DOMAIN bookings |->
                        IF i \in S THEN Changed(bookings[i], s) ELSE bookings[i]]
  BY DEF BookingsChange
<1>2. ASSUME NEW i \in S PROVE bookings'[i] \notin R
  <2> DEFINE b == bookings[i]
             r == Changed(b, s)
  <2>1. b \in BookingRows /\ bookings'[i] = r
    BY <1>1
  <2>2. r.status = s /\ (b.status # "open" => r.revived)
    BY <2>1 DEF Changed, BookingRows
  <2>3. b.status # s
    BY <1>1
  <2> HIDE DEF r
  <2> QED
    BY <2>1, <2>2, <2>3
<1>3. DOMAIN bookings' = DOMAIN bookings
  BY <1>1
<1> QED
  BY <1>1, <1>2, <1>3 DEF Taking

LEMMA ChangeKeepsLimits ==
  ASSUME Placed', LimitsHold, NEW S \in SUBSET DOMAIN bookings,
         NEW s \in {"open", "completed", "dead"}, BookingsChange(S, s)
  PROVE  LimitsHold'
<1>1. bookings \in Seq(BookingRows) /\ bookings' \in Seq(BookingRows)
  BY PlacedTyped DEF LimitsHold, WithinLimits, Placed
<1>2. ASSUME NEW q \in Quotas PROVE Cardinality(Taking(bookings', q.rows)) <= q.cap
  <2> DEFINE old == Taking(bookings, q.rows)
             new == Taking(bookings', q.rows)
  <2>1. \A b \in q.rows : b.status = "open" /\ ~b.revived
    BY QuotaCases DEF AvailabilityRows, SlotRows, CustomerRows, KeptRows
  <2>2. new \subseteq old
    BY <1>1, <2>1, ChangesTakeNothing
  <2>3. /\ IsFiniteSet(old) /\ Cardinality(old) \in Nat /\ Cardinality(old) <= q.cap
        /\ q.cap \in Nat
    BY <1>1, TakingFinite, QuotaCap DEF LimitsHold, WithinLimits
  <2> HIDE DEF old, new
  <2>4. IsFiniteSet(new) /\ Cardinality(new) \in Nat /\ Cardinality(new) <= Cardinality(old)
    BY <2>2, <2>3, FS_Subset, FS_CardinalityType
  <2> QED
    BY <2>3, <2>4 DEF new
<1>3. ASSUME NEW d \in Days, NEW v \in Services PROVE Load(bookings', d, v) <= DailyCapacity[v]
  <2> DEFINE old == Taking(bookings, ServiceRows(d, v))
             new == Taking(bookings', ServiceRows(d, v))
  <2>1. \A b \in ServiceRows(d, v) : b.status = "open" /\ ~b.revived
    BY DEF ServiceRows, KeptRows
  <2>2. new \subseteq old /\ \A i \in new : bookings'[i] = bookings[i]
    BY <1>1, <2>1, ChangesTakeNothing
  <2>3. old \in SUBSET DOMAIN bookings /\ new \in SUBSET DOMAIN bookings'
    BY DEF Taking
  <2>4. /\ Load(bookings, d, v) = LargestOf(bookings, old)
        /\ Load(bookings', d, v) = LargestOf(bookings', new)
        /\ Load(bookings, d, v) <= DailyCapacity[v]
    BY DEF Load, LimitsHold, WithinLimits
  <2> HIDE DEF old, new
  <2>5. LargestOf(bookings', new) \in Nat /\ LargestOf(bookings', new) <= LargestOf(bookings, old)
    BY <1>1, <2>2, <2>3, LargestOfGrows
  <2>6. LargestOf(bookings, old) \in Nat /\ DailyCapacity[v] \in Nat
    BY <1>1, <2>3, LargestOfGrows, AvailabilityAssumption
  <2> QED
    BY <2>4, <2>5, <2>6
<1> QED
  BY <1>1, <1>2, <1>3 DEF LimitsHold, WithinLimits

LEMMA NextLimits == Placed' /\ LimitsHold /\ [Next]_vars => LimitsHold'
<1> SUFFICES ASSUME Placed', LimitsHold, [Next]_vars PROVE LimitsHold'
  OBVIOUS
<1>1. ASSUME UNCHANGED bookings PROVE LimitsHold'
  BY <1>1 DEF LimitsHold, WithinLimits
<1>2. CASE \/ \E c \in Customers : BookPackage(c) \/ BookPackageFails(c)
           \/ \E v \in Services \union {"all"}, first, last \in Days, time \in Blocks :
                CreateBlock(v, first, last, time)
           \/ \E x \in blocked, wholeGroup \in BOOLEAN : RemoveBlock(x, wholeGroup)
           \/ \E i \in DOMAIN purchases, s \in {"open", "dead"} : PurchaseChanges(i, s)
           \/ UNCHANGED vars
  BY <1>1, <1>2 DEF BookPackage, BookPackageFails, CreateBlock, RemoveBlock, PurchaseChanges, vars
<1> QED
  BY <1>2, CreateEventLimits, AddServiceLimits, BookPackageLimits, ChangeKeepsLimits DEF Next

LEMMA NoRows ==
  ASSUME NEW d, NEW v PROVE Load(<<>>, d, v) = 0
<1>1. Taking(<<>>, ServiceRows(d, v)) = {}
  BY DEF Taking
<1>2. Load(<<>>, d, v) = LargestOf(<<>>, {})
  BY <1>1 DEF Load
<1>3. IsFiniteSet({})
  BY FS_EmptySet
<1> DEFINE f == [i \in {} |-> Largest(<<>>[i].items)]
<1>4. PICK g : IsSum(f, Picks({}), {}, g) /\ LargestOf(<<>>, {}) = g[{}]
  BY <1>3, LargestOfIsSum
<1> HIDE DEF f
<1> QED
  BY <1>2, <1>4 DEF IsSum

LEMMA LimitsInvariant == Spec => [](Placed /\ LimitsHold)
<1>1. Init => LimitsHold
  <2> SUFFICES ASSUME Init PROVE LimitsHold
    OBVIOUS
  <2>1. bookings = <<>>
    BY DEF Init
  <2>2. ASSUME NEW q \in Quotas PROVE Cardinality(Taking(bookings, q.rows)) <= q.cap
    <3>1. Taking(bookings, q.rows) = {}
      BY <2>1 DEF Taking
    <3> QED
      BY <3>1, FS_EmptySet, QuotaCap
  <2>3. ASSUME NEW d \in Days, NEW v \in Services PROVE Load(bookings, d, v) <= DailyCapacity[v]
    BY <2>1, NoRows, AvailabilityAssumption
  <2> QED
    BY <2>1, <2>2, <2>3 DEF LimitsHold, WithinLimits
<1> QED
  BY <1>1, InitPlaced, NextPlaced, NextLimits, PTL DEF Spec

(* The bookings that have been open all along are those the quotas count.    *)
LEMMA KeptIsTaking ==
  ASSUME Placed, NEW d \in Days, NEW i
  PROVE  i \in Kept(d) <=> i \in DOMAIN bookings /\ bookings[i] \in KeptRows(d)
BY DEF Placed, Kept, Active, KeptRows

(* No availability is booked beyond its capacity: neither by two services of *)
(* one createEvent, nor by addServiceToEvent, nor by a package whose         *)
(* children are all checked before any is created, whatever was cancelled,   *)
(* completed or brought back in between.                                     *)
THEOREM CapacityIsKept == Spec => []CapacityHolds
<1>1. Placed /\ LimitsHold => CapacityHolds
  <2> SUFFICES ASSUME Placed, LimitsHold, NEW d \in Days, NEW s \in Selections
               PROVE  Cardinality(OnAvailability(bookings, Kept(d), s)) <= AvailabilityCapacity(s)
    BY DEF CapacityHolds
  <2>1. OnAvailability(bookings, Kept(d), s) = Taking(bookings, AvailabilityRows(d, s))
    BY KeptIsTaking DEF OnAvailability, Taking, AvailabilityRows
  <2>2. [rows |-> AvailabilityRows(d, s), cap |-> AvailabilityCapacity(s)] \in Quotas
    BY DEF Quotas
  <2> QED
    BY <2>1, <2>2 DEF LimitsHold, WithinLimits
<1> QED
  BY <1>1, LimitsInvariant, PTL

(* No slot is booked beyond its own capacity either.                         *)
THEOREM SlotCapacityIsKept == Spec => []SlotCapacityHolds
<1>1. Placed /\ LimitsHold => SlotCapacityHolds
  <2> SUFFICES ASSUME Placed, LimitsHold, NEW d \in Days, NEW t \in Slots
               PROVE  Cardinality({i \in Kept(d) : bookings[i].slot = t}) <= Capacity[t]
    BY DEF SlotCapacityHolds
  <2>1. {i \in Kept(d) : bookings[i].slot = t} = Taking(bookings, SlotRows(d, t))
    BY KeptIsTaking DEF Taking, SlotRows
  <2>2. [rows |-> SlotRows(d, t), cap |-> Capacity[t]] \in Quotas
    BY DEF Quotas
  <2> QED
    BY <2>1, <2>2 DEF LimitsHold, WithinLimits
<1> QED
  BY <1>1, LimitsInvariant, PTL

(* No sub-service is ordered beyond its daily capacity, an order that lists  *)
(* it twice counted by its largest item: not by the items of one request, of *)
(* several, or of a package, and not by what other modules cancel, complete  *)
(* or bring back.                                                            *)
THEOREM DailyCapacityIsKept == Spec => []DailyCapacityHolds
<1>1. Placed /\ LimitsHold => DailyCapacityHolds
  <2> SUFFICES ASSUME Placed, LimitsHold, NEW d \in Days, NEW v \in Services
               PROVE  LargestOf(bookings, {i \in Kept(d) : bookings[i].service = v}) <= DailyCapacity[v]
    BY DEF DailyCapacityHolds
  <2>1. {i \in Kept(d) : bookings[i].service = v} = Taking(bookings, ServiceRows(d, v))
    BY KeptIsTaking DEF Taking, ServiceRows
  <2> QED
    BY <2>1 DEF Load, LimitsHold, WithinLimits
<1> QED
  BY <1>1, LimitsInvariant, PTL

-----------------------------------------------------------------------------
(* The other tables.                                                        *)

PurchaseRows == [customer : Customers, status : {"open", "dead"}, revived : BOOLEAN]
BlockRows    == [service : Services \union {"all"}, day : Days, time : Blocks, group : 1 .. MaxBlocks]

TablesTyped ==
  /\ purchases \in Seq(PurchaseRows)
  /\ blocked \subseteq BlockRows
  /\ asking \in [Customers -> 0 .. 2]
  /\ changes \in Nat

(* A group that is not taken: the rows of a new block get one of their own.  *)
LEMMA FreeGroup ==
  ASSUME TablesTyped, Cardinality(Groups) < MaxBlocks
  PROVE  (CHOOSE n \in 1 .. MaxBlocks : n \notin Groups) \in 1 .. MaxBlocks
<1>1. MaxBlocks \in Nat /\ Cardinality(1 .. MaxBlocks) = MaxBlocks
  <2>1. Cardinality(1 .. MaxBlocks) = IF 1 > MaxBlocks THEN 0 ELSE MaxBlocks - 1 + 1
    BY AvailabilityAssumption, FS_Interval
  <2> QED
    BY <2>1, AvailabilityAssumption
<1>2. Groups \subseteq 1 .. MaxBlocks
  BY DEF TablesTyped, BlockRows, Groups
<1>3. Groups # 1 .. MaxBlocks
  BY <1>1
<1> QED
  BY <1>2, <1>3

LEMMA NextTables == TablesTyped /\ [Next]_vars => TablesTyped'
<1> SUFFICES ASSUME TablesTyped, [Next]_vars PROVE TablesTyped'
  OBVIOUS
<1> USE DEF TablesTyped
<1>1. ASSUME NEW c \in Customers, NEW d \in Days, NEW w \in Windows, NEW sels \in Requested,
             CreateEvent(c, d, w, sels)
      PROVE  TablesTyped'
  BY <1>1 DEF CreateEvent
<1>2. ASSUME NEW c \in Customers, NEW d \in Days, NEW w \in Windows, NEW sels \in Requested,
             BookPackageCommit(c, d, w, sels)
      PROVE  TablesTyped'
  <2>1. asking' \in [Customers -> 0 .. 2]
    BY <1>2 DEF BookPackageCommit
  <2>2. [customer |-> c, status |-> "open", revived |-> FALSE] \in PurchaseRows
    BY DEF PurchaseRows
  <2>3. purchases' \in Seq(PurchaseRows)
    BY <1>2, <2>2 DEF BookPackageCommit
  <2> QED
    BY <1>2, <2>1, <2>3 DEF BookPackageCommit
<1>3. ASSUME NEW i \in DOMAIN bookings, NEW s \in Selections, AddServiceToEvent(i, s)
      PROVE  TablesTyped'
  BY <1>3 DEF AddServiceToEvent
<1>4. ASSUME NEW c \in Customers, BookPackage(c) \/ BookPackageFails(c) PROVE TablesTyped'
  BY <1>4 DEF BookPackage, BookPackageFails
<1>5. ASSUME NEW v \in Services \union {"all"}, NEW first \in Days, NEW last \in Days,
             NEW time \in Blocks, Cardinality(Groups) < MaxBlocks,
             CreateBlock(v, first, last, time)
      PROVE  TablesTyped'
  <2> DEFINE g == CHOOSE n \in 1 .. MaxBlocks : n \notin Groups
             new == [service : {v}, day : Days \intersect (first .. last), time : {time}, group : {g}]
  <2>1. g \in 1 .. MaxBlocks
    BY <1>5, FreeGroup
  <2>2. blocked' = blocked \union new /\ UNCHANGED <<purchases, asking, changes>>
    BY <1>5 DEF CreateBlock
  <2> HIDE DEF g
  <2>3. new \subseteq BlockRows
    BY <2>1 DEF BlockRows
  <2> QED
    BY <2>2, <2>3
<1>6. ASSUME NEW x \in blocked, NEW wholeGroup \in BOOLEAN, RemoveBlock(x, wholeGroup)
      PROVE  TablesTyped'
  BY <1>6 DEF RemoveBlock
<1>7. ASSUME NEW S \in SUBSET DOMAIN bookings, NEW s, BookingsChange(S, s) PROVE TablesTyped'
  BY <1>7 DEF BookingsChange
<1>8. ASSUME NEW i \in DOMAIN purchases, NEW s \in {"open", "dead"}, PurchaseChanges(i, s)
      PROVE  TablesTyped'
  <2>1. purchases[i] \in PurchaseRows
    OBVIOUS
  <2>2. Changed(purchases[i], s) \in PurchaseRows
    BY <2>1 DEF Changed, PurchaseRows
  <2>3. purchases' \in Seq(PurchaseRows)
    BY <1>8, <2>2 DEF PurchaseChanges
  <2> QED
    BY <1>8, <2>3 DEF PurchaseChanges
<1>9. CASE UNCHANGED vars
  BY <1>9 DEF vars
<1> QED
  BY <1>1, <1>2, <1>3, <1>4, <1>5, <1>6, <1>7, <1>8, <1>9 DEF Next

LEMMA TablesInvariant == Spec => [](Placed /\ TablesTyped)
<1>1. Init => TablesTyped
  BY DEF Init, TablesTyped
<1> QED
  BY <1>1, InitPlaced, NextPlaced, NextTables, PTL DEF Spec

(* The rows keep the shape of their tables, each booking is of the kind its  *)
(* service calls for, whichever endpoint made it, and the groups of blocks   *)
(* stay within the bound the model sets itself.                              *)
THEOREM RowsTyped == Spec => []TypeOK
<1>1. Placed /\ TablesTyped => TypeOK
  <2>1. Placed => \A i \in DOMAIN bookings : RightKind(bookings[i])
    BY DEF Placed, WellPlaced
  <2> QED
    BY <2>1, PlacedTyped DEF TablesTyped, PurchaseRows, BlockRows, TypeOK
<1> QED
  BY <1>1, TablesInvariant, PTL

-----------------------------------------------------------------------------
(* One booking of a service per customer and day, one package at a time.    *)

OpenPurchase(p) == p.status = "open" /\ ~p.revived

OnePurchase ==
  \A i, j \in DOMAIN purchases :
    purchases[i].customer = purchases[j].customer
      /\ OpenPurchase(purchases[i]) /\ OpenPurchase(purchases[j]) => i = j

LEMMA NextOnePurchase == TablesTyped /\ OnePurchase /\ [Next]_vars => OnePurchase'
<1> SUFFICES ASSUME TablesTyped, OnePurchase, [Next]_vars PROVE OnePurchase'
  OBVIOUS
<1>0. /\ purchases \in Seq(PurchaseRows) /\ DOMAIN purchases = 1 .. Len(purchases)
      /\ Len(purchases) \in Nat
  BY DEF TablesTyped
<1>1. ASSUME NEW c \in Customers, NEW d \in Days, NEW w \in Windows, NEW sels \in Requested,
             BookPackageCommit(c, d, w, sels)
      PROVE  OnePurchase'
  <2> DEFINE p == [customer |-> c, status |-> "open", revived |-> FALSE]
             n == Len(purchases) + 1
  <2>1. purchases' = Append(purchases, p) /\ ~HasActivePurchase(c)
    BY <1>1 DEF BookPackageCommit, SecondLook
  <2>2. /\ DOMAIN purchases' = DOMAIN purchases \union {n} /\ n \notin DOMAIN purchases
        /\ purchases'[n] = p /\ \A i \in DOMAIN purchases : purchases'[i] = purchases[i]
    BY <1>0, <2>1
  <2>3. p.customer = c
    OBVIOUS
  <2>4. \A i \in DOMAIN purchases : purchases[i].customer = c => ~OpenPurchase(purchases[i])
    BY <2>1 DEF HasActivePurchase, OpenPurchase
  <2> HIDE DEF p
  <2> QED
    BY <2>2, <2>3, <2>4 DEF OnePurchase
<1>2. ASSUME NEW i \in DOMAIN purchases, NEW s \in {"open", "dead"}, PurchaseChanges(i, s)
      PROVE  OnePurchase'
  <2> DEFINE r == Changed(purchases[i], s)
  <2>1. /\ purchases[i].status # s
        /\ DOMAIN purchases' = DOMAIN purchases
        /\ \A j \in DOMAIN purchases : purchases'[j] = IF j = i THEN r ELSE purchases[j]
    BY <1>0, <1>2 DEF PurchaseChanges
  <2>2. purchases[i] \in PurchaseRows
    BY <1>0
  <2>3. ~OpenPurchase(r)
    BY <2>1, <2>2 DEF Changed, OpenPurchase, PurchaseRows
  <2> HIDE DEF r
  <2> QED
    BY <2>1, <2>3 DEF OnePurchase
<1>3. ASSUME UNCHANGED purchases PROVE OnePurchase'
  BY <1>3 DEF OnePurchase, OpenPurchase
<1>4. CASE \/ \E c \in Customers, d \in Days, w \in Windows, sels \in Requested :
                CreateEvent(c, d, w, sels)
           \/ \E i \in DOMAIN bookings, s \in Selections : AddServiceToEvent(i, s)
           \/ \E c \in Customers : BookPackage(c) \/ BookPackageFails(c)
           \/ \E v \in Services \union {"all"}, first, last \in Days, time \in Blocks :
                CreateBlock(v, first, last, time)
           \/ \E x \in blocked, wholeGroup \in BOOLEAN : RemoveBlock(x, wholeGroup)
           \/ \E S \in SUBSET DOMAIN bookings, s \in {"open", "completed", "dead"} :
                BookingsChange(S, s)
           \/ UNCHANGED vars
  BY <1>3, <1>4 DEF CreateEvent, AddServiceToEvent, BookPackage, BookPackageFails, CreateBlock,
     RemoveBlock, BookingsChange, vars
<1> QED
  BY <1>1, <1>2, <1>4 DEF Next

(* A customer books a service once a day, and a package once at a time: the  *)
(* check for a duplicate and the second look of bookPackage hold against     *)
(* requests sent twice at once and against everything cancelled meanwhile.   *)
THEOREM NothingIsBookedTwice == Spec => []NoDoubleBooking
<1>1. Placed /\ LimitsHold /\ OnePurchase => NoDoubleBooking
  <2> SUFFICES ASSUME Placed, LimitsHold, OnePurchase PROVE NoDoubleBooking
    OBVIOUS
  <2>1. ASSUME NEW d \in Days, NEW i \in Kept(d), NEW j \in Kept(d),
               bookings[i].customer = bookings[j].customer,
               bookings[i].service = bookings[j].service
        PROVE  i = j
    <3> DEFINE c == bookings[i].customer
               v == bookings[i].service
               T == Taking(bookings, CustomerRows(d, c, v))
    <3>1. /\ i \in DOMAIN bookings /\ bookings[i] \in KeptRows(d)
          /\ j \in DOMAIN bookings /\ bookings[j] \in KeptRows(d)
      BY KeptIsTaking
    <3>2. c \in Customers /\ v \in Services
      BY <3>1 DEF KeptRows, BookingRows
    <3>3. i \in T /\ j \in T
      BY <2>1, <3>1 DEF Taking, CustomerRows
    <3>4. [rows |-> CustomerRows(d, c, v), cap |-> 1] \in Quotas
      BY <3>2 DEF Quotas
    <3>5. Cardinality(T) <= 1
      BY <3>4 DEF LimitsHold, WithinLimits
    <3>6. IsFiniteSet(T) /\ Cardinality(T) \in Nat
      BY PlacedTyped, TakingFinite
    <3> HIDE DEF T
    <3>7. Cardinality(T) = 0 \/ Cardinality(T) = 1
      BY <3>5, <3>6
    <3>8. T = {} \/ \E x : T = {x}
      BY <3>6, <3>7, FS_EmptySet, FS_Singleton
    <3> QED
      BY <3>3, <3>8
  <2> QED
    BY <2>1 DEF OnePurchase, OpenPurchase, NoDoubleBooking
<1>2. Init => OnePurchase
  BY DEF Init, OnePurchase
<1>3. Spec => []OnePurchase
  BY <1>2, NextOnePurchase, TablesInvariant, PTL DEF Spec
<1> QED
  BY <1>1, <1>3, LimitsInvariant, PTL

-----------------------------------------------------------------------------
(* Blocks.                                                                  *)

(* What the check for blocks keeps out. *)
LEMMA UnblockedIsOutside ==
  ASSUME TablesTyped, NEW d \in Days, NEW w \in Windows, NEW s, ~IsBlocked(d, w, s),
         NEW x \in blocked, x.day = d, x.service \in {s.service, "all"}
  PROVE  /\ x.time # NoTime
         /\ FirstDayMinutes(w[1], w[2]) \intersect Minutes(x.time[1], x.time[2]) = {}
<1>1. x.time # NoTime /\ ~rangesOverlap(w[1], w[2], x.time[1], x.time[2])
  BY DEF IsBlocked, Hits
<1>2. x.time \in Blocks
  BY DEF TablesTyped, BlockRows
<1>3. x.time[1] \in TimesOfDay /\ x.time[2] \in TimesOfDay /\ x.time[1] < x.time[2]
  BY <1>1, <1>2, AvailabilityAssumption
<1>4. w[1] \in TimesOfDay /\ w[2] \in TimesOfDay
  BY AvailabilityAssumption
<1> QED
  BY <1>1, <1>3, <1>4, OverlapIsASharedMinute

Outside(b) ==
  \A x \in blocked : x.day = b.day /\ x.service \in {b.service, "all"} =>
    /\ x.time # NoTime
    /\ FirstDayMinutes(b.window[1], b.window[2]) \intersect Minutes(x.time[1], x.time[2]) = {}

LEMMA AdmittedIsOutside ==
  ASSUME TablesTyped, NEW rows, NEW counted, NEW c, NEW d \in Days, NEW w \in Windows, NEW s,
         Admits(rows, counted, c, d, w, s)
  PROVE  Outside(Row(c, d, w, s))
<1> DEFINE r == Row(c, d, w, s)
<1>1. r.day = d /\ r.window = w /\ r.service = s.service
  BY DEF Row
<1>2. ~IsBlocked(d, w, s)
  BY DEF Admits
<1> HIDE DEF r
<1>3. Outside(r)
  BY <1>1, <1>2, UnblockedIsOutside DEF Outside
<1> QED
  BY <1>3 DEF r

NewOutside == \A i \in DOMAIN bookings' \ DOMAIN bookings : Outside(bookings'[i])

LEMMA NextOutside == Placed /\ TablesTyped /\ [Next]_vars => NewOutside
<1> SUFFICES ASSUME Placed, TablesTyped, [Next]_vars PROVE NewOutside
  OBVIOUS
<1>1. bookings \in Seq(BookingRows) /\ DOMAIN bookings = 1 .. Len(bookings) /\ Len(bookings) \in Nat
  BY PlacedTyped
<1>2. ASSUME NEW c \in Customers, NEW d \in Days, NEW w \in Windows, NEW sels \in Requested,
             CreateEvent(c, d, w, sels) \/ BookPackageCommit(c, d, w, sels)
      PROVE  NewOutside
  <2> DEFINE rows == [k \in DOMAIN sels |-> Row(c, d, w, sels[k])]
  <2>1. /\ bookings' = bookings \o rows
        /\ \A k \in DOMAIN sels : \E table, counted : Admits(table, counted, c, d, w, sels[k])
    BY <1>2 DEF CreateEvent, BookPackageCommit
  <2>2. \A k \in DOMAIN sels : Outside(rows[k])
    BY <2>1, AdmittedIsOutside
  <2>3. rows \in Seq(BookingRows) /\ DOMAIN rows = DOMAIN sels
    <3>1. \A k \in DOMAIN sels : WithinHours(w, sels[k])
      BY <1>2 DEF CreateEvent, BookPackageCommit
    <3>2. rows \in Seq({b \in BookingRows : WellPlaced(b)})
      BY <3>1, RowsArePlaced
    <3>3. DOMAIN rows = DOMAIN sels
      OBVIOUS
    <3> HIDE DEF rows
    <3> QED
      BY <3>2, <3>3
  <2> HIDE DEF rows
  <2>4. \A i \in DOMAIN bookings' \ DOMAIN bookings :
          i - Len(bookings) \in DOMAIN rows /\ bookings'[i] = rows[i - Len(bookings)]
    BY <1>1, <2>1, <2>3
  <2> QED
    BY <2>2, <2>3, <2>4 DEF NewOutside
<1>3. ASSUME NEW i \in DOMAIN bookings, NEW s \in Selections, AddServiceToEvent(i, s)
      PROVE  NewOutside
  <2> DEFINE b == bookings[i]
             r == Row(b.customer, b.day, b.window, s)
  <2>1. b.day \in Days /\ b.window \in Windows
    BY DEF Placed, BookingRows
  <2>2. bookings' = Append(bookings, r)
    BY <1>3 DEF AddServiceToEvent
  <2>3. Outside(r)
    BY <1>3, <2>1, AdmittedIsOutside DEF AddServiceToEvent
  <2> HIDE DEF r
  <2>4. \A k \in DOMAIN bookings' \ DOMAIN bookings : bookings'[k] = r
    BY <1>1, <2>2
  <2> QED
    BY <2>3, <2>4 DEF NewOutside
<1>4. ASSUME DOMAIN bookings' = DOMAIN bookings PROVE NewOutside
  BY <1>4 DEF NewOutside
<1>5. CASE \/ \E c \in Customers : BookPackage(c) \/ BookPackageFails(c)
           \/ \E v \in Services \union {"all"}, first, last \in Days, time \in Blocks :
                CreateBlock(v, first, last, time)
           \/ \E x \in blocked, wholeGroup \in BOOLEAN : RemoveBlock(x, wholeGroup)
           \/ \E S \in SUBSET DOMAIN bookings, s \in {"open", "completed", "dead"} :
                BookingsChange(S, s)
           \/ \E i \in DOMAIN purchases, s \in {"open", "dead"} : PurchaseChanges(i, s)
           \/ UNCHANGED vars
  BY <1>4, <1>5 DEF BookPackage, BookPackageFails, CreateBlock, RemoveBlock, BookingsChange,
     PurchaseChanges, vars
<1> QED
  BY <1>2, <1>3, <1>5 DEF Next

(* A new booking shares no minute of its first day with a block of its       *)
(* service or of all services of its provider, whoever makes it: the check   *)
(* looks at the table the booking is written to, in the same transaction.    *)
THEOREM BookedOutsideBlocks == Spec => OutsideBlocks
<1>1. Placed /\ TablesTyped /\ [Next]_vars =>
        [\A i \in DOMAIN bookings' \ DOMAIN bookings, x \in blocked :
           LET b == bookings'[i]
           IN x.day = b.day /\ x.service \in {b.service, "all"} =>
                /\ x.time # NoTime
                /\ FirstDayMinutes(b.window[1], b.window[2])
                     \intersect Minutes(x.time[1], x.time[2]) = {}]_vars
  BY NextOutside DEF NewOutside, Outside
<1> QED
  BY <1>1, TablesInvariant, PTL DEF Spec, OutsideBlocks
=============================================================================
