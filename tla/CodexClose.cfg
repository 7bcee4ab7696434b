\* close() between the response to turn/start and the continuation of startRun.
SPECIFICATION FairSpec
CONSTANTS
  Threads = {t1}
  Runs = {r1}
  WireIds = {w1}
  MaxRunEvents = 3
  MaxMessages = 0
  MaxInteractions = 1
  NoRun = NoRun
  NoThread = NoThread
  NoWire = NoWire
CHECK_DEADLOCK FALSE
PROPERTIES
  CloseSettlesRuns
