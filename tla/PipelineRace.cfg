SPECIFICATION Spec
CONSTANTS
  Jobs = {j1}
  StoryWorkers = {ws1, ws2}
  EmailWorkers = {we1}
  StorySchedulers = {ps1, ps2}
  EmailSchedulers = {pe1}
  MaxJobRetry = 1
  OverflowRetry = 3
  BatchLimit = 10
  MaxFaults = 0
  MaxCrashes = 0
  None = None
SYMMETRY Symmetry
INVARIANTS LimitInv StrandedOnlyPastDLQ StoryExceededIsDeadLettered NoDoubleDelivery
CHECK_DEADLOCK FALSE
