SPECIFICATION BoundedSpec
CONSTANTS
  Intents = {i1,i2}
  Events = {e1}
  Requests = {d1,d2,d3}
  MaxAttempts = 1
  NoPayment = NoPayment
  FailingSteps = {}
  JobsTimeOut = FALSE
SYMMETRY Symmetry
INVARIANTS
  TypeOK
  FulfilledOnlyIfPaid
  OrderIsSound
PROPERTIES
  ImplementsMilestones
CHECK_DEADLOCK FALSE
