\* Two connections under one key and one under another; early closes and Shutdown.
SPECIFICATION FairSpec
CONSTANTS
  c1 = c1
  c2 = c2
  c3 = c3
  k1 = k1
  k2 = k2
  Conns = {c1, c2, c3}
  Keys = {k1, k2}
  KeyOf <- TwoKeys
  None = None
  Events = {"early", "shutdown"}
INVARIANT TypeOK
INVARIANT LostOnlyToRival
PROPERTY ClosedIsForgotten
CHECK_DEADLOCK FALSE
