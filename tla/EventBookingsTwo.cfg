\* Two bookings of one event, one request at a time beside the cron jobs.
CONSTANTS
  Bookings = {b1, b2}
  Deliverable = {}
  EventId = e
  Workers = {w1}
  Requests <- SettlingEndpoints
  Faulty <- AllThreads
SPECIFICATION Spec
INVARIANTS
  EventStartedIsPaid
PROPERTIES
  ImplementsPaymentGate
CHECK_DEADLOCK FALSE
