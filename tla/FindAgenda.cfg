\* An owner's list of a day misses a booking of that day.
SPECIFICATION SerialSpec
CONSTANTS
  ann = ann  gil = gil  bob = bob  carol = carol
  salon = salon  gym = gym  spa = spa
  cut = cut  trim = trim  spin = spin  tan = tan
  seed = seed
  NoCall = NoCall  NoHours = NoHours
  NoBlockCall = NoBlockCall  NoScheduleCall = NoScheduleCall
  Users <- MCUsers
  Businesses <- MCBusinesses
  Owner <- MCOwner
  Role <- MCRole
  Services <- MCServices
  BusinessOf <- MCBusinessOf
  Duration <- MCDuration
  InitialHours <- MCHours
  DayLength = 6
  MaxStalledCount = 1
  MaxAdds = 1
  UtcOffset <- MovingZones
  Instants <- Now
  BookingRequests = {r1}
  Calls <- AnyCalls
  BlockRequests = {}
  BlockCalls <- MCBlockCalls
  DeleteRequests = {}
  DeleteCalls <- NoCalls
  ScheduleRequests = {}
  ScheduleCalls <- MCScheduleCalls
INVARIANT ListedOnItsDay
\* Each request is sent once, so the system stops when all are answered.
CHECK_DEADLOCK FALSE
