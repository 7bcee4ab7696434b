SPECIFICATION MCSpec
CONSTANTS
  Threads = {1, 2}
  Runs = {1, 2}
  WireIds = {w1}
  Calls = {c1, c2}
  MaxRunEvents = 3
  MaxMessages = 3
  MaxInteractions = 2
  NoRun = NoRun
  NoThread = NoThread
  NoWire = NoWire
  NoCall = NoCall
INVARIANTS RunsSound ClientSound
PROPERTIES ImplementsRunContract NothingMixedUp CallsSettle
CHECK_DEADLOCK FALSE
