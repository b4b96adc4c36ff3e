----------------------------- MODULE PaymentGate -----------------------------
(***************************************************************************)
(* What payment promises to the bookings of an event, without the handlers *)
(* that keep the promise (PaymentsService, BookingsService): a payment     *)
(* that cleared stays cleared, the service of a booking starts only after  *)
(* its own payment cleared, and the event is on only if the service of one *)
(* of its bookings has started.                                            *)
(***************************************************************************)
CONSTANT Bookings

VARIABLES
  cleared,  \* the bookings whose payment has cleared
  started,  \* the bookings whose service has been started
  running   \* the event is IN_PROGRESS or COMPLETED

vars == <<cleared, started, running>>

Init ==
  /\ cleared = {}
  /\ started = {}
  /\ running = FALSE

ClearPayments(S) ==
  /\ cleared' = cleared \union S
  /\ UNCHANGED <<started, running>>

(* Starting a service may be what puts the event on. *)
StartServices(S) ==
  /\ S # {}
  /\ S \subseteq cleared
  /\ started' = started \union S
  /\ running' \in {running, TRUE}
  /\ UNCHANGED cleared

(* The event is called off, taken back to a draft, or resumed. *)
SwitchEvent ==
  /\ running' \in BOOLEAN
  /\ running' => started # {}
  /\ UNCHANGED <<cleared, started>>

Next ==
  \/ \E S \in SUBSET Bookings : ClearPayments(S) \/ StartServices(S)
  \/ SwitchEvent

Spec == Init /\ [][Next]_vars
=============================================================================
