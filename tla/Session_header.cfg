\* A ping of the client with a payload, then a ping of the server.
SPECIFICATION UpgradeSpec
CONSTANTS
  Loop = Loop
  Reader = Reader
  Users = {u1}
  Sender = Sender
  NoOne = NoOne
  Final = Final
  Own <- OwnFrames
  MaxOwn = 1
  NetFails = TRUE
  Requests <- AllRequests
  Settings <- AllSettings
INVARIANT HeaderFitsPayload
CHECK_DEADLOCK FALSE
