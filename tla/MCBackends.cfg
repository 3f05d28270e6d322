SPECIFICATION FairSpec
CONSTANTS
  Scripts <- MCScripts
  Configured = {"db", "mongo", "mail", "redis", "amq", "auth"}
  MaxCalls = 4
  MaxBatch = 2
  MaxRows = 1
  MaxRecipients = 1
  MaxSends = 1
  Explicit = {"introspect"}
INVARIANTS TransactionsAreHeld AnswersAreTrue SendsBounded EffectsMetered
PROPERTY CallsEnd
CHECK_DEADLOCK FALSE
