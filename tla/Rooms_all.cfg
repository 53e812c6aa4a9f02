\* Connections that join, move, leave and close, while rooms are closed and the manager shuts down.
SPECIFICATION FairSpec
CONSTANTS
  c1 = c1
  c2 = c2
  h1 = h1
  h2 = h2
  h3 = h3
  Conns = {c1, c2}
  Handlers = {h1, h2, h3}
  ConnOf <- Shared
  Keys = {"a", "b"}
  MaxRooms = 2
  MaxOps <- Operations
  Uses <- Programs
INVARIANT TypeOK
INVARIANT OneRoomAtATime
INVARIANT HooksFollowMembers
INVARIANT LostOnlyToRoomClose
PROPERTY ClosedLeavesRooms
PROPERTY CallsReturn
CHECK_DEADLOCK FALSE
