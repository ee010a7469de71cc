SPECIFICATION Spec
CONSTANTS
  Jobs = {j1, j2}
  StoryWorkers = {ws1}
  EmailWorkers = {we1}
  StorySchedulers = {ps1}
  EmailSchedulers = {pe1}
  MaxJobRetry = 1
  OverflowRetry = 3
  BatchLimit = 1
  MaxFaults = 0
  MaxCrashes = 0
  None = None
INVARIANTS FinalInv QuietIsCompleted
PROPERTIES CompletedIsFinal
CHECK_DEADLOCK FALSE
