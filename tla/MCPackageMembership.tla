------------------------- MODULE MCPackageMembership -------------------------
(* An instance of PackageMembership for TLC: the owner's hall and sound, and *)
(* a partner's food.                                                         *)
EXTENDS PackageMembership, TLC

CONSTANTS hall, sound, food

MCType == (hall :> "HALL") @@ (sound :> "SOUND") @@ (food :> "FOOD")
=============================================================================
