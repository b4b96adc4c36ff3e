-------------------------- MODULE MCPackageBookings --------------------------
(* Instances of PackageBookings for TLC. *)
EXTENDS PackageBookings, TLC

AllPackageEndpoints == PackageEndpoints
PackageSymmetry == Permutations(Workers) \union Permutations(Bookings)
=============================================================================
