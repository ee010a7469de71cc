SPECIFICATION Spec
CONSTANTS
  Jobs = {j1}
  StoryWorkers = {ws1}
  EmailWorkers = {we1}
  StorySchedulers = {ps1}
  EmailSchedulers = {pe1}
  MaxJobRetry = 1
  OverflowRetry = 3
  BatchLimit = 10
  MaxFaults = 0
  MaxCrashes = 1
  None = None
INVARIANTS NotificationStillComing
CHECK_DEADLOCK FALSE
