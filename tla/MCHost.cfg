\* More threads than warm runtimes, one source above the size floor and one
\* below, two namespaces.
CONSTANTS
  Thread = {t1, t2}
  Size = 1
  Namespace = {n1, n2}
  Source = {big, small}
  Large = {big}
  None = None
SPECIFICATION FairSpec
INVARIANTS RuntimesConserved RunsOwnCode
PROPERTY ShutdownQuiesces
CHECK_DEADLOCK FALSE
