\* Two requests at a time on a provider's two services and a sub-service, or
\* on the files of its picture and of the sub-service.
CONSTANTS
  hall = hall
  food = food
  meal = meal
  Services = {hall, food}
  SubServices = {meal}
  First = hall
  Parent <- MCParent
  Whole = {hall}
  Workers = {w1, w2}
  None = none
  MaxRequests = 2
  Uploaders = {u1, u2}
  Uploads = {f1, f2, f3}
  Original = f1
  NoUpload = NoUpload
  MaxTasks = 4
SYMMETRY Symmetry
SPECIFICATION ProviderSideSpec
INVARIANTS
  ProviderSideTypeOK
  ActiveIsComplete
  RejectedIsOffSale
  UnderReviewHasRequest
  FilesAreThere
\* Everything may be decided.
CHECK_DEADLOCK FALSE
