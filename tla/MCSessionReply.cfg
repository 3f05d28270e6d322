\* Two calls are enough for a late reply to meet the wrong one.
CONSTANTS
  Kind <- MCKind
  Stateless = {"amq"}
  Table <- MCTable
  Inits <- MCInits
  Accepted = {"current", "previous"}
  MaxOps = 2
  None = None
SPECIFICATION Spec
INVARIANT ReplyAnswersCall
CHECK_DEADLOCK FALSE
