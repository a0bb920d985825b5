SPECIFICATION SerialSpec
CONSTANTS
  Intents = {i1}
  Events = {e1,e2}
  Requests = {d1}
  MaxAttempts = 2
  NoPayment = NoPayment
  FailingSteps <- WithinTry
  JobsTimeOut = FALSE
SYMMETRY Symmetry
INVARIANTS
  StockMatchesStatus
  CaptureIsNotForgotten
  OneRecordPerEvent
PROPERTIES
  TablesAreFollowed
CHECK_DEADLOCK FALSE
