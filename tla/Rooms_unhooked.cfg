\* A connection that closes before its hook is set.
SPECIFICATION Spec
CONSTANTS
  c1 = c1
  c2 = c2
  h1 = h1
  h2 = h2
  h3 = h3
  Conns = {c1, c2}
  Handlers = {h1, h2, h3}
  ConnOf <- Shared
  Keys = {"a", "b"}
  MaxRooms = 2
  MaxOps <- Operations
  Uses <- Programs
INVARIANT RemovedWhenClosed
CHECK_DEADLOCK FALSE
