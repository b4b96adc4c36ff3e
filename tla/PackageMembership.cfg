\* Two requests at a time while invitations expire and services are deleted.
CONSTANTS
  hall = hall
  sound = sound
  food = food
  Services = {hall, sound, food}
  Own = {hall, sound}
  Halls = {hall}
  Type <- MCType
  Discounts = {d1}
  Workers = {w1, w2}
  Deletable = {food}
  MaxRequests = 4
  MaxRows = 4
SPECIFICATION MembershipSpec
INVARIANTS
  MembershipTypeOK
  PartnersConsented
PROPERTIES
  OwnerHallStays
  InvitationsEnd
\* Everything may be settled.
CHECK_DEADLOCK FALSE
