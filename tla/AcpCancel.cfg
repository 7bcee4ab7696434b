SPECIFICATION Spec
CONSTANTS
  Sessions = {s1}
  Prompts = {p1}
  Cancels = {c1, c2}
  Closes = {}
  Requests = {k1}
  NoSession = NoSession
  NoPrompt = NoPrompt
  NoRequest = NoRequest
  MaxPendingWrites = 1
  MaxBufferedEvents = 1
  MaxInbound = 1
PROPERTY CancelLeavesNothingOpen
CHECK_DEADLOCK FALSE
