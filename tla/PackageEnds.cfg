\* One request at a time, which may die at any call; liveness.
CONSTANTS
  Bookings = {b1, b2}
  Deliverable = {}
  EventId = e
  Workers = {w1}
  Requests = {"sendQuote"}
  Faulty = {w1}
  PackageRequests <- AllPackageEndpoints
  ChildCrons = {"handleExpiredBookings", "completePastEvents"}
  MaxRequests = 3
  Intents = {i1}
SPECIFICATION PackageFairSpec
PROPERTIES
  UnpaidPurchaseEnds
  RunningPurchaseEnds
CHECK_DEADLOCK FALSE
