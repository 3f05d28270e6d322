\* Sessions of up to three calls.
CONSTANTS
  Kind <- MCKind
  Stateless = {"amq"}
  Table <- MCTable
  Inits <- MCInits
  Accepted = {"current", "previous"}
  MaxOps = 3
  None = None
SPECIFICATION FairSpec
INVARIANTS RepliesInOrder  OnlyOwnResources MetricsAreFinal
PROPERTIES CallsReturn SessionEnds DaemonReleases
CHECK_DEADLOCK FALSE
