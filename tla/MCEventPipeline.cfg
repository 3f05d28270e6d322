\* A buffer of 0 is a channel of one.  The process ends, so it may stop.
CONSTANTS
  Request = {r1, r2, r3}
  Io = {r3}
  Buffer = 0
SPECIFICATION FairSpec
INVARIANTS EventsAccounted FlushedAtExit
PROPERTY ShutdownEnds
CHECK_DEADLOCK FALSE
