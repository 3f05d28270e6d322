\* Single-tenant mode, with fairness.
CONSTANTS
  ka = ka  kb = kb  kc = kc  b1 = b1  b2 = b2
  None = None
  Key <- MCKey
  Bucket <- MCBucket
  BucketOf <- MCBucketOf
  PlanName <- MCPlanName
  PlanLimit <- MCPlanLimit
  Req = {r1, r2}
  Inputs <- LocalInputs
  Trusted = FALSE
  QuotaOn = TRUE
  PerPartition = 1
  MaxConcurrent = 1
SPECIFICATION FairSpec
PROPERTY PlainRequestsEnd
CHECK_DEADLOCK FALSE
