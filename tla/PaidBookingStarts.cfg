\* One booking, one request at a time, nothing fails.
CONSTANTS
  Bookings = {b1}
  Deliverable = {}
  EventId = e
  Workers = {w1}
  Requests <- CashEndpoints
  Faulty = {}
SPECIFICATION FairSpec
PROPERTIES
  PaidBookingStarts
CHECK_DEADLOCK FALSE
