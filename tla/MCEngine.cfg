\* A permitted host and one that is not, so that redirects can stay and stray.  Of the clock
\* only whether the limit has passed matters: it is passed at the first tick.
SPECIFICATION FairSpec
CONSTANTS
  Run = {r1, r2}
  Timeout = 0
  MaxOps = 2
  MaxOutputSize = 1
  OutputSize <- MCOutputSize
  Host = {h1, hx}
  Permitted = {h1}
  MaxRedirects = 2
  AllowDelete = TRUE
  None = None
INVARIANTS TimeoutIsTrue EgressBudget EffectsSurvive NetworkConfined UsageComplete
PROPERTY RunEnds
