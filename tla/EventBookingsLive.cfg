\* One booking; requests may die at any call, the passes of the cron jobs do not.
CONSTANTS
  Bookings = {b1}
  Deliverable = {b1}
  EventId = e
  Workers = {w1}
  Requests <- AllEndpoints
  Faulty = {w1}
SPECIFICATION FairSpec
PROPERTIES
  UnpaidExpires
  EventEnds
CHECK_DEADLOCK FALSE
