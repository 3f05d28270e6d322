CONSTANTS
  Key = {"k1", "k2", "odd"}
  Usable = {"k1", "k2"}
  Published <- MCPublished
  Session = {s1, s2}
  NoToken = NoToken
SPECIFICATION VerifierSpec
INVARIANT FailClosed
PROPERTIES KeysNeverGoBack CacheConverges
