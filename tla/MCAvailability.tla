---------------------------- MODULE MCAvailability ----------------------------
(* An instance of Availability for TLC: a day of six hours; a hall that is   *)
(* open from hour 4 to hour 2 of the next day, and a caterer with slots past *)
(* midnight, one of them too short, whose meals are counted; the package    *)
(* sells both.                                                               *)
EXTENDS Availability, TLC

CONSTANTS alice, bob, hall, food, evening, night, early, none

Symmetry == Permutations(Customers)

MCFrom == (hall :> 4) @@ (food :> 0) @@ (evening :> 3) @@ (night :> 4) @@ (early :> 4)
MCTo   == (hall :> 2) @@ (food :> 0) @@ (evening :> 1) @@ (night :> 2) @@ (early :> 0)
MCCapacity        == (hall :> 1) @@ (food :> 0) @@ (evening :> 1) @@ (night :> 1) @@ (early :> 1)
MCSlottedCapacity == (hall :> 0) @@ (food :> 2)
MCSlotService     == (evening :> food) @@ (night :> food) @@ (early :> food)
MCDailyCapacity   == (hall :> 0) @@ (food :> 2)
MCWindows == {<<4, 1>>}
MCOrders  == {<<1>>, <<1, 2>>}
MCBlocks  == {none, <<4, 5>>}
=============================================================================
