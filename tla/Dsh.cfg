SPECIFICATION MCSpec
CONSTANTS
  Sessions = {1, 2}
  Runs = {1, 2}
  Children = {11, 12}
  Foreign = 9
  MaxSessions = 2
  MaxBuffered = 2
  MaxRunEvents = 5
  MaxWire = 2
  MaxSays = 1
  MaxOddities = 2
  MaxInputs = 2
  NoRun = 0
  NoSession = 0
INVARIANTS DshSound GatewaySound
PROPERTIES RunsImplementContract CallsSettle
CHECK_DEADLOCK FALSE
