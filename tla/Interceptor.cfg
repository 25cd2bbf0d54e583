\* Requests are repeated under their keys, across expiry, a crash that takes
\* the worker with it, and a loss of Redis.
SPECIFICATION FairSpec
CONSTANTS
  ann = ann  bob = bob  carol = carol  salon = salon  cut = cut  seed = seed
  key1 = key1  key2 = key2  BadKey = BadKey  BadBody = BadBody  Nothing = Nothing
  NoCall = NoCall  NoHours = NoHours
  Users <- MCUsers
  Businesses <- MCBusinesses
  Owner <- MCOwner
  Role <- MCRole
  Services <- MCServices
  BusinessOf <- MCBusinessOf
  Duration <- MCDuration
  InitialHours <- MCHours
  UtcOffset <- MCZone
  DayLength = 6
  Instants = {0}
  MaxStalledCount = 1
  MaxAdds = 2
  Calls <- MCCalls
  Keys = {key1, key2}
  BookingRequests = {r1, r2}
  Submissions <- TwoKeys
  MaxRestarts = 1
  MaxOutages = 1
INVARIANT TypeOK
INVARIANT ReplaysAreTrue
INVARIANT ReplayedWhileKept
INVARIANT SecondBookingNeedsRace
INVARIANT BookedIsNotBlamed
INVARIANT NotifiedOncePerLoss
PROPERTY CreatedIsNotified
\* Each request is sent once, so the system stops when all are answered.
CHECK_DEADLOCK FALSE
