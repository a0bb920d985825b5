SPECIFICATION FairSpec
CONSTANTS
  Intents = {i1}
  Events = {e1,e2}
  Requests = {}
  MaxAttempts = 1
  NoPayment = NoPayment
  FailingSteps = {}
  JobsTimeOut = FALSE
PROPERTIES
  CaptureReachesOrder
CHECK_DEADLOCK FALSE
