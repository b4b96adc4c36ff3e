--------------------------- MODULE MCEventBookings ---------------------------
(* Instances of EventBookings for TLC. *)
EXTENDS EventBookings, TLC

AllEndpoints == Endpoints
AllThreads   == Threads
Symmetry     == Permutations(Workers)

(* The paths by which a booking is settled and the event switched on or off. *)
SettlingEndpoints ==
  {"addServiceToEvent", "cancelEvent", "sendQuote", "confirmQuote", "rejectQuote",
   "bulkQuoteDecision", "createPayment", "markCashPaid"}

CashEndpoints  == {"sendQuote", "confirmQuote", "createPayment", "markCashPaid"}
QuoteEndpoints == {"sendQuote", "rejectQuote", "bulkQuoteDecision"}
=============================================================================
