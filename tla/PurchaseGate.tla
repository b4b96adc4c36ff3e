---------------------------- MODULE PurchaseGate ----------------------------
(***************************************************************************)
(* What payment promises to a purchase of a package, without the handlers  *)
(* and jobs that keep the promise (PackagesService, PackagesCronService,   *)
(* PaymentsService).  A service can be paid for by itself or with the      *)
(* whole purchase; it starts only once it is covered by one of the two.    *)
(* The purchase and its event are put on only after somebody has paid.     *)
(* No payment is taken back, and none puts anything on or off by itself.   *)
(*                                                                         *)
(* Unlike in PaymentGate an event may be on although no service of it has  *)
(* started: a purchase can be paid when its services are all called off.   *)
(***************************************************************************)
CONSTANT Services

VARIABLES
  own,      \* the services whose own payment has cleared
  whole,    \* the payment of the purchase has cleared
  started,  \* the services that have been started
  running   \* the purchase or its event is IN_PROGRESS or COMPLETED

vars == <<own, whole, started, running>>

Covered == IF whole THEN Services ELSE own
Somebody == whole \/ own # {}

Init ==
  /\ own = {}
  /\ whole = FALSE
  /\ started = {}
  /\ running = FALSE

ClearPayments(S) ==
  /\ own' = own \union S
  /\ whole' \in {whole, TRUE}
  /\ UNCHANGED <<started, running>>

StartServices(S) ==
  /\ Somebody
  /\ S \subseteq Covered
  /\ started' = started \union S
  /\ running' \in {running, TRUE}
  /\ UNCHANGED <<own, whole>>

(* Called off, resumed or completed. *)
SwitchPurchase ==
  /\ running' \in BOOLEAN
  /\ running' => Somebody
  /\ UNCHANGED <<own, whole, started>>

Next ==
  \/ \E S \in SUBSET Services : ClearPayments(S) \/ StartServices(S)
  \/ SwitchPurchase

Spec == Init /\ [][Next]_vars
=============================================================================
