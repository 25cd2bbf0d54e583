\* A repeated request is refused once the cache has lost its key.
SPECIFICATION Spec
CONSTANTS
  ann = ann  bob = bob  carol = carol  salon = salon  cut = cut  seed = seed
  key1 = key1  key2 = key2  BadKey = BadKey  BadBody = BadBody  Nothing = Nothing
  NoCall = NoCall  NoHours = NoHours
  Users <- MCUsers
  Businesses <- MCBusinesses
  Owner <- MCOwner
  Role <- MCRole
  Services <- MCServices
  BusinessOf <- MCBusinessOf
  Duration <- MCDuration
  InitialHours <- MCHours
  UtcOffset <- MCZone
  DayLength = 6
  Instants = {0}
  MaxStalledCount = 1
  MaxAdds = 1
  Calls <- MCCalls
  Keys = {key1, key2}
  BookingRequests = {r1, r2}
  Submissions <- OneKey
  MaxRestarts = 1
  MaxOutages = 0
INVARIANT RepeatIsReplayed
\* Each request is sent once, so the system stops when all are answered.
CHECK_DEADLOCK FALSE
