----------------------------- MODULE MCBackOffice -----------------------------
(* Two requests at a time on one or two rows, and one notification. *)
EXTENDS BackOffice

CONSTANTS c1, c2, x1, d1, t1, t2, h1, h2, b1, b2

SomeEvents  == {"PAYMENT_CONFIRMED"}
TypeChanges == 0 .. 1
=============================================================================
