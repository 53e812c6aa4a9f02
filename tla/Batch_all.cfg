\* Calls and broadcasts of three messages while flushers and connections come and go.
SPECIFICATION FairSpec
CONSTANTS
  c1 = c1
  c2 = c2
  m1 = m1
  m2 = m2
  m3 = m3
  Conns = {c1, c2}
  Messages = {m1, m2, m3}
  MaxFlushers = 2
  MaxBatchSize = 2
  SizeOf <- Lengths
  Setups <- Uses
INVARIANT TypeOK
INVARIANT ExcessIsForced
INVARIANT NoGoneConnIsSwept
PROPERTY KeepsPromise
PROPERTY BatchedIsSent
CHECK_DEADLOCK FALSE
