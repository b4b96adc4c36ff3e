\* Requests that interleave in one of the three parts, the other two at rest.
SPECIFICATION BackOfficeSpec
CONSTANTS
  c1 = c1
  c2 = c2
  x1 = x1
  d1 = d1
  t1 = t1
  t2 = t2
  h1 = h1
  h2 = h2
  b1 = b1
  b2 = b2
  NoCode = NoCode
  Clients = {c1, c2}
  Codes = {x1}
  Seconds = 2
  MaxCalls = 4
  Deliveries = {d1}
  Devices = {t1, t2}
  Occurring <- SomeEvents
  Handlers = {h1, h2}
  Reviewed = {b1, b2}
  Versions <- TypeChanges
INVARIANTS
  BackOfficeTypeOK
  RotationIsOnce
  ClosedFollowsTheRules
  RatingIsOfReviews
PROPERTIES
  LiveDevicesStay
  NotificationsSettle
  TypesCacheCatchesUp
\* Requests are bounded; everything may be done.
CHECK_DEADLOCK FALSE
