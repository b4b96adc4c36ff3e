---------------------------- MODULE MCProviderSide ----------------------------
(* An instance of ProviderSide for TLC: a hall from the registration, a      *)
(* caterer with one sub-service, two requests at a time; and three files.    *)
EXTENDS ProviderSide, TLC

CONSTANTS hall, food, meal

MCParent == meal :> food
Symmetry == Permutations(Workers)
=============================================================================
