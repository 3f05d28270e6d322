\* Requests are served once, so the system may stop.
CONSTANTS
  Request = {r1, r2}
  Connection = {c1, c2}
  Addresses = 2
  MaxConnections = 1
  MaxBidiStreams = 1
  None = None
SPECIFICATION FairSpec
INVARIANTS ConnectionSlots NotCutByOthers
PROPERTY RequestsEnd
CHECK_DEADLOCK FALSE
