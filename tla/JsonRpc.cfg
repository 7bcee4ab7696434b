SPECIFICATION MCSpec
CONSTANTS
  Calls = {1, 2, 3}
  Notices = {n1}
  Closers = {x1}
  InboundIds = {k1}
  MaxRequestId = 2
  MaxPendingRequests = 2
  MaxPendingWrites = 2
  MaxPendingInboundRequests = 1
  MaxBufferedMessages = 1
  MaxInbound = 2
  MaxInputs = 4
  NoCall = NoCall
  NoId = NoId
INVARIANTS PendingIsTracked TerminationReleasesAll AnswersSound
PROPERTIES WritesAndCallsSettle
CHECK_DEADLOCK FALSE
