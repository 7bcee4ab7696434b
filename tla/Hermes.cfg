SPECIFICATION MCSpec
CONSTANTS
  Sessions = {1, 2}
  Handles = {1, 2}
  Runs = {1, 2}
  MaxApprovals = 2
  SupportsCancel = TRUE
  SupportsApproval = TRUE
  MaxInputs = 3
  NoRun = 0
  NoSession = 0
  NoHandle = 0
INVARIANT HermesSound
PROPERTIES ImplementsRunContract EvidenceSettles
CHECK_DEADLOCK FALSE
