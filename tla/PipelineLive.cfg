SPECIFICATION FairSpec
CONSTANTS
  Jobs = {j1}
  StoryWorkers = {ws1, ws2}
  EmailWorkers = {we1}
  StorySchedulers = {ps1}
  EmailSchedulers = {pe1}
  MaxJobRetry = 1
  OverflowRetry = 3
  BatchLimit = 10
  MaxFaults = 0
  MaxCrashes = 0
  None = None
INVARIANTS PlaceInv NoConcurrentExecution
PROPERTIES EventuallyResolved
CHECK_DEADLOCK FALSE
