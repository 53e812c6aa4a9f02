\* Two messages, or a message, a broadcast and a ping; everything may fail.
SPECIFICATION FairSpec
CONSTANTS
  s1 = s1
  s2 = s2
  b1 = b1
  c1 = c1
  k1 = k1
  Senders = {s1, s2}
  Casters = {b1}
  Controllers = {c1}
  Closers = {}
  Parties <- OneFrameEach
  NoOne = NoOne
  Final = Final
  MaxSize = 1
  Cancellable = {s1, b1}
  Faults = {"net", "rawclose", "timeout", "encode"}
INVARIANT TypeOK
INVARIANT FramesDoNotMix
INVARIANT CloseFrameIsLast
INVARIANT CloseIsComplete
PROPERTY ReturnsUnlessLockedOut
CHECK_DEADLOCK FALSE
