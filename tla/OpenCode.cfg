SPECIFICATION MCSpec
CONSTANTS
  Sessions = {s1, s2}
  Handles = {h1, h2}
  Runs = {r1, r2}
  Permissions = {p1}
  MaxInteractions = 2
  MaxInputs = 4
  NoRun = NoRun
  NoSession = NoSession
  NoHandle = NoHandle
INVARIANT OpenCodeSound
PROPERTIES ImplementsRunContract OperationsSettle
CHECK_DEADLOCK FALSE
