SPECIFICATION Spec
CONSTANTS
  Jobs = {j1}
  StoryWorkers = {ws1}
  EmailWorkers = {we1}
  StorySchedulers = {ps1}
  EmailSchedulers = {pe1}
  MaxJobRetry = 1
  OverflowRetry = 2
  BatchLimit = 10
  MaxFaults = 1
  MaxCrashes = 1
  None = None
INVARIANTS TypeOK IInv NoJobLost NotifiedOnlyWhenReady NothingAfterDeletion
PROPERTIES KeepsContract
CHECK_DEADLOCK FALSE
