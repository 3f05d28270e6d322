\* Connects of any length: several probes can be out at once, or none ever end.
CONSTANTS
  Target = {t1, t2}
  Caller = {c1, c2, c3}
  Idle = Idle
  Threshold = 2
  Cooldown = 2
  AgeCap = 4
  FailureCap = 3
  TripsModulus = 3
SPECIFICATION FairSpec
INVARIANTS OpenIffThreshold ProbeSpacing
PROPERTIES ImplementsAbs ReadyAgain
