\* Two messages of up to two frames each, one closer, everything that may fail.
SPECIFICATION Spec
CONSTANTS
  s1 = s1
  s2 = s2
  b1 = b1
  c1 = c1
  k1 = k1
  Senders = {s1, s2}
  Casters = {}
  Controllers = {}
  Closers = {k1}
  Parties <- Everybody
  NoOne = NoOne
  Final = Final
  MaxSize = 2
  Cancellable = {s1, s2}
  Faults = {"net", "rawclose", "encode"}
SYMMETRY Symmetry
INVARIANT OneOwnerUntilClose
INVARIANT NilMeansSentUntilClose
INVARIANT StreamWellFormed
CHECK_DEADLOCK FALSE
