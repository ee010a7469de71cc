SPECIFICATION FairSpec
CONSTANTS
  Jobs = {j1, j2}
  StoryWorkers = {ws1}
  EmailWorkers = {we1}
  StorySchedulers = {ps1}
  EmailSchedulers = {pe1}
  MaxJobRetry = 1
  OverflowRetry = 2
  BatchLimit = 10
  MaxFaults = 0
  MaxCrashes = 0
  None = None
PROPERTIES EventuallyResolved
CHECK_DEADLOCK FALSE
