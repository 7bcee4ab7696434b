SPECIFICATION MCSpec
CONSTANTS
  Ids = {1, 2}
  Calls = {1, 2}
  Runs = {1, 2}
  Approvals = {a1}
  NoId = NoId
  NoRun = NoRun
  MaxRunEvents = 2
  MaxEvents = 1
  MaxInputs = 5
INVARIANT OpenClawSound
PROPERTIES ImplementsRunContract OperationsSettle
CHECK_DEADLOCK FALSE
