SPECIFICATION Spec
CONSTANTS
  e1 = e1
  d1 = d1
  d2 = d2
  Events = {e1}
  Deliveries = {d1, d2}
  NoEvent = NoEvent
  QueueFails = TRUE
  ServerFails = FALSE
SYMMETRY DeliverySymmetry
INVARIANTS AnsweredIsQueued
CHECK_DEADLOCK FALSE
