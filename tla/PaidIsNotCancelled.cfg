\* One booking, one request at a time beside the cron jobs, nothing fails.
CONSTANTS
  Bookings = {b1}
  Deliverable = {}
  EventId = e
  Workers = {w1}
  Requests <- CashEndpoints
  Faulty = {}
SPECIFICATION Spec
PROPERTIES
  PaidIsNotCancelled
CHECK_DEADLOCK FALSE
