\* Every request and setting, then the connection, with a ping of the application.
SPECIFICATION UpgradeSpec
CONSTANTS
  Loop = Loop
  Reader = Reader
  Users = {u1}
  Sender = Sender
  NoOne = NoOne
  Final = Final
  Own <- OwnFrames
  MaxOwn = 1
  NetFails = TRUE
  Requests <- AllRequests
  Settings <- AllSettings
INVARIANT UpgradeTypeOK
INVARIANT AnsweringClientIsKept
INVARIANT HandshakeIsRight
PROPERTY SilentIsCutOff
PROPERTY PingReturns
CHECK_DEADLOCK FALSE
