SPECIFICATION MCSpec
CONSTANTS
  Sessions = {s1}
  Prompts = {1, 2, 3}
  Cancels = {1, 2}
  Closes = {x1}
  Requests = {k1}
  NoSession = NoSession
  NoPrompt = NoPrompt
  NoRequest = NoRequest
  MaxPendingWrites = 2
  MaxBufferedEvents = 1
  MaxInbound = 2
  MaxTraffic = 3
  MaxInputs = 4
INVARIANT TurnsSound
PROPERTIES StepsInOrder CallsSettle
CHECK_DEADLOCK FALSE
