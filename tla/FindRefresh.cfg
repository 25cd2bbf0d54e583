\* A refresh is refused because the access token has expired.
SPECIFICATION PlatformSpec
CONSTANTS
  ann = ann  bob = bob  carol = carol
  NoCall = NoCall  NoToken = NoToken
  Users = {ann, bob, carol}
  Registered = {ann, bob}
  SessionCalls <- MCSessionCalls
  Names = {n1}
  AccessLife = 1
  RefreshLife = 2
  SharedSeconds = 1
  MaxClock = 1
  Requests = {r1}
INVARIANT RefreshNeedsItsTokenOnly
SYMMETRY MCSymmetry
\* Each request is sent once, so the system stops when all are answered.
CHECK_DEADLOCK FALSE
