\* Two requests at a time against the jobs of PackagesCronService.
CONSTANTS
  Bookings = {b1, b2}
  Deliverable = {}
  EventId = e
  Workers = {w1, w2}
  Requests = {"createPayment", "markCashPaid", "sendQuote"}
  Faulty = {}
  PackageRequests <- AllPackageEndpoints
  ChildCrons = {}
  MaxRequests = 4
  Intents = {i1}
SYMMETRY PackageSymmetry
SPECIFICATION PackageSpec
INVARIANTS
  PackageTypeOK
  ServiceRunsPaid
  PurchasePaymentReceived
  ClosedPurchaseFreesSlots
PROPERTIES
  OnePaymentWindow
  ImplementsPurchaseGate
\* Everything may be settled.
CHECK_DEADLOCK FALSE
