\* Trusted mode under contention.
CONSTANTS
  ka = ka  kb = kb  kc = kc  b1 = b1  b2 = b2
  None = None
  Key <- MCKey
  Bucket <- MCBucket
  BucketOf <- MCBucketOf
  PlanName <- MCPlanName
  PlanLimit <- MCPlanLimit
  Req = {r1, r2, r3}
  Inputs <- TrustedInputs
  Trusted = TRUE
  QuotaOn = TRUE
  PerPartition = 2
  MaxConcurrent = 2
SPECIFICATION Spec
SYMMETRY Symmetry
INVARIANTS QuotaConserved PermitsConserved QuotaHonored 
PROPERTY ImplementsBulkhead
CHECK_DEADLOCK FALSE
