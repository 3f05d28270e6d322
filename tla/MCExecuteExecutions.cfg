\* The statement of the code or its documents, against what the code does.
CONSTANTS
  ka = ka  kb = kb  kc = kc  b1 = b1  b2 = b2
  None = None
  Key <- MCKey
  Bucket <- MCBucket
  BucketOf <- MCBucketOf
  PlanName <- MCPlanName
  PlanLimit <- MCPlanLimit
  Req = {r1, r2}
  Inputs <- TrustedInputs
  Trusted = TRUE
  QuotaOn = TRUE
  PerPartition = 2
  MaxConcurrent = 1
SPECIFICATION Spec
INVARIANT BulkheadBoundsExecutions
CHECK_DEADLOCK FALSE
