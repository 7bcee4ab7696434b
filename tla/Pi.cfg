SPECIFICATION MCSpec
CONSTANTS
  Sessions = {1, 2}
  Handles = {1, 2}
  Runs = {1, 2}
  MaxPendingRequests = 2
  MaxPendingInteractions = 1
  MaxDialogs = 1
  MaxSdkSessions = 2
  MaxInputs = 3
  NoRun = 0
  NoSession = 0
  NoHandle = 0
INVARIANTS PiSound SdkSound
PROPERTIES RunsImplementContract CallsSettle
CHECK_DEADLOCK FALSE
