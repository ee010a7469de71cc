SPECIFICATION FairSpec
CONSTANTS
  StoryWorkers = {ws1}
  EmailWorkers = {we1, we2}
  Handlers = {h1}
  MaxJobs = 2
  MaxPanics = 1
INVARIANTS TypeOK IInv JobsAccounted NoHandlerCutOff AtMostOneLate
PROPERTIES ReturnsOrStuck
CHECK_DEADLOCK FALSE
