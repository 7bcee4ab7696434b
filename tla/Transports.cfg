SPECIFICATION MCSpec
CONSTANTS
  Sends = {s1, s2, s3}
  Closers = {c1}
  MaxPendingWrites = 2
  MaxBufferedMessages = 2
  MaxInbound = 3
  Requests = {r1, r2}
  Streams = {t1}
  MaxConcurrentRequests = 1
  MaxConcurrentStreams = 1
  MaxEventsPerChunk = 1
  MaxOperations = 2
  MaxLineBytes = 2
  MaxEventBytes = 5
  MaxChunk = 2
  MaxText = 6
INVARIANTS JsonlSound HttpSound ParsedAsMeant
PROPERTY CallsSettle
CHECK_DEADLOCK FALSE
