\* Three bookings, one request at a time, nothing fails.
CONSTANTS
  Bookings = {b1, b2, b3}
  Deliverable = {}
  EventId = e
  Workers = {w1}
  Requests <- QuoteEndpoints
  Faulty = {}
SPECIFICATION Spec
PROPERTIES
  RunningEventStaysOn
CHECK_DEADLOCK FALSE
