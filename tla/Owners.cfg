\* Owners, other owners and customers create and delete blocks.
SPECIFICATION FairGateway
CONSTANTS
  ann = ann  gil = gil  bob = bob  carol = carol
  salon = salon  gym = gym  spa = spa
  cut = cut  trim = trim  spin = spin  tan = tan
  seed = seed
  NoCall = NoCall  NoHours = NoHours
  NoBlockCall = NoBlockCall  NoScheduleCall = NoScheduleCall
  Users <- MCUsers
  Businesses <- MCBusinesses
  Owner <- MCOwner
  Role <- MCRole
  Services <- MCServices
  BusinessOf <- MCBusinessOf
  Duration <- MCDuration
  InitialHours <- MCHours
  DayLength = 6
  MaxStalledCount = 1
  MaxAdds = 1
  UtcOffset <- FixedZones
  Instants <- Now
  BookingRequests = {}
  Calls <- TwoBusinessCalls
  BlockRequests = {k1, k2}
  BlockCalls <- AnyBlockCalls
  DeleteRequests = {d1, d2}
  DeleteCalls <- MCDeleteCalls
  ScheduleRequests = {}
  ScheduleCalls <- MCScheduleCalls
  Resolution = 5
  Junk = Junk  Null = Null  NoOffset = NoOffset  NoBody = NoBody
  BookingBodies <- MCBookingBodies
  BlockBodies <- MCBlockBodies
  WeekBodies <- MCWeekBodies
INVARIANT BlockOverlapNeedsRace
INVARIANT StoredAsSent
PROPERTY OwnersOnly
PROPERTY RequestsSettle
\* Each request is sent once, so the system stops when all are answered.
CHECK_DEADLOCK FALSE
