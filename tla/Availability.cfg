\* One day, four bookings, a block and two requests at a time of each customer.
CONSTANTS
  DayLength = 6
  alice = alice
  bob = bob
  hall = hall
  food = food
  evening = evening
  night = night
  early = early
  none = none
  Customers = {alice, bob}
  Services = {hall, food}
  Slots = {evening, night, early}
  Days = {1}
  HasHours = {hall}
  From <- MCFrom
  To <- MCTo
  Capacity <- MCCapacity
  SlottedCapacity <- MCSlottedCapacity
  SlotService <- MCSlotService
  RequiresItems = {food}
  DailyCapacity <- MCDailyCapacity
  Packaged = {}
  PackageServices = {hall, food}
  Windows <- MCWindows
  Orders <- MCOrders
  Blocks <- MCBlocks
  NoSlot = none
  NoTime = none
  MaxServices = 2
  MaxBookings = 4
  MaxBlocks = 1
  MaxChanges = 1
SYMMETRY Symmetry
SPECIFICATION Spec
INVARIANTS
  TypeOK
  CapacityHolds
  SlotCapacityHolds
  DailyCapacityHolds
  NoDoubleBooking
  InsideHours
PROPERTIES
  OutsideBlocks
\* A full calendar takes no more bookings.
CHECK_DEADLOCK FALSE
