SPECIFICATION FairSpec
CONSTANTS
  Caller = {m1, m2, m3}
  Observer = {o1}
  Connection = {c1}
  MaxEpoch = 3
  MaxRevision = 3
  None = None
PROPERTY CallsReturn
