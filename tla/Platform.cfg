\* Accounts, sessions, businesses and services, three requests at a time.
SPECIFICATION PlatformSpec
CONSTANTS
  ann = ann  bob = bob  carol = carol
  NoCall = NoCall  NoToken = NoToken
  Users = {ann, bob, carol}
  Registered = {ann, bob}
  SessionCalls <- MCSessionCalls
  Names = {n1}
  AccessLife = 1
  RefreshLife = 2
  SharedSeconds = 1
  MaxClock = 1
  Requests = {r1, r2, r3}
INVARIANT PlatformTypeOK
INVARIANT SignedOutStaysOut
INVARIANT TokenRefreshesOnce
INVARIANT LastCookiesWork
INVARIANT CatalogIsOwned
INVARIANT SameNameNeedsRace
SYMMETRY MCSymmetry
\* Each request is sent once, so the system stops when all are answered.
CHECK_DEADLOCK FALSE
