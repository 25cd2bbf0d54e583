\* One booking at every tick of three days, at a salon whose clock goes
\* forward and at a gym whose clock goes back, while the week is replaced.
SPECIFICATION FairGateway
CONSTANTS
  ann = ann  gil = gil  bob = bob  carol = carol
  salon = salon  gym = gym  spa = spa
  cut = cut  trim = trim  spin = spin  tan = tan
  seed = seed
  NoCall = NoCall  NoHours = NoHours
  NoBlockCall = NoBlockCall  NoScheduleCall = NoScheduleCall
  Users <- MCUsers
  Businesses <- MCBusinesses
  Owner <- MCOwner
  Role <- MCRole
  Services <- MCServices
  BusinessOf <- MCBusinessOf
  Duration <- MCDuration
  InitialHours <- MCHours
  DayLength = 6
  MaxStalledCount = 1
  MaxAdds = 2
  UtcOffset <- MovingZones
  Instants <- TwoTimes
  BookingRequests = {r1}
  Calls <- AnyCalls
  BlockRequests = {}
  BlockCalls <- MCBlockCalls
  DeleteRequests = {}
  DeleteCalls <- NoCalls
  ScheduleRequests = {w1, w2}
  ScheduleCalls <- TwoWeeks
  Resolution = 5
  Junk = Junk  Null = Null  NoOffset = NoOffset  NoBody = NoBody
  BookingBodies <- MCBookingBodies
  BlockBodies <- MCBlockBodies
  WeekBodies <- MCWeekBodies
INVARIANT InsideCheckedHours
INVARIANT ScheduleIsOneRequest
INVARIANT StoredAsSent
PROPERTY OwnersOnly
PROPERTY EngineSpec
PROPERTY RequestsSettle
\* Each request is sent once, so the system stops when all are answered.
CHECK_DEADLOCK FALSE
