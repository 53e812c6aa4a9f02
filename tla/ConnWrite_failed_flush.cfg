\* The network write of one message fails.
SPECIFICATION FairSpec
CONSTANTS
  s1 = s1
  s2 = s2
  b1 = b1
  c1 = c1
  k1 = k1
  Senders = {s1}
  Casters = {}
  Controllers = {}
  Closers = {}
  Parties <- Everybody
  NoOne = NoOne
  Final = Final
  MaxSize = 1
  Cancellable = {}
  Faults = {"net"}
PROPERTY FailedFlushReturns
CHECK_DEADLOCK FALSE
