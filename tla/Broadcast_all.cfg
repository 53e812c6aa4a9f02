\* Two broadcasts to two connections that may be new, close or fail, under every strategy.
SPECIFICATION FairSpec
CONSTANTS
  c1 = c1
  c2 = c2
  m1 = m1
  m2 = m2
  Nobody = Nobody
  Conns = {c1, c2}
  Casts = {m1, m2}
  Setups <- EveryPolicy
INVARIANT TypeOK
INVARIANT InOrderOnce
PROPERTY OnlySlowAreClosed
 
PROPERTY QueuedIsSent
CHECK_DEADLOCK FALSE
