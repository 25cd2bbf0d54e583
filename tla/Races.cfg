\* A day's slots are offered while two bookings and a block race.
SPECIFICATION AvailabilitySpec
CONSTANTS
  ann = ann  gil = gil  bob = bob  carol = carol
  salon = salon  gym = gym  spa = spa
  cut = cut  trim = trim  spin = spin  tan = tan
  seed = seed
  NoCall = NoCall  NoHours = NoHours
  NoBlockCall = NoBlockCall  NoScheduleCall = NoScheduleCall
  Users <- MCUsers
  Businesses <- MCBusinesses
  Owner <- MCOwner
  Role <- MCRole
  Services <- MCServices
  BusinessOf <- MCBusinessOf
  Duration <- MCDuration
  InitialHours <- MCHours
  DayLength = 6
  MaxStalledCount = 1
  MaxAdds = 1
  UtcOffset <- MovingZones
  Instants <- TwoTimes
  BookingRequests = {r1, r2}
  Calls <- SlotBookings
  BlockRequests = {k1}
  BlockCalls <- SlotBlocks
  DeleteRequests = {}
  DeleteCalls <- OwnerDeletes
  ScheduleRequests = {}
  ScheduleCalls <- SerialWeeks
  SlotRequests = {q1}
  SlotCalls <- DaySlots
  NoSlotCall = NoSlotCall  BadDate = BadDate
INVARIANT OverlapNeedsRace
INVARIANT AnswersAreTrue
INVARIANT OfferedIsBookable
INVARIANT BookableIsOffered
INVARIANT OffersInsideHours
SYMMETRY SlotSymmetry
\* Each request is sent once, so the system stops when all are answered.
CHECK_DEADLOCK FALSE
