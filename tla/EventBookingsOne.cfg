\* One booking, two requests at a time, every endpoint, every thread may die.
CONSTANTS
  Bookings = {b1}
  Deliverable = {b1}
  EventId = e
  Workers = {w1, w2}
  Requests <- AllEndpoints
  Faulty <- AllThreads
SYMMETRY Symmetry
SPECIFICATION Spec
INVARIANTS
  TypeOK
  PaidGate
  NoDeadlineMeansPaid
  VerifiedBeforePaid
  ChargedAtMostOnce
\* The event and its booking may be over.
CHECK_DEADLOCK FALSE
