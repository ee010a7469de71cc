SPECIFICATION Spec
CONSTANTS
  Users = {u1}
  Requests = {q1, q2}
  Lifetime = 3
  MaxClock = 2
  MaxRows = 5
  MaxFailures = 0
  None = None
PROPERTIES RotatedIsRefused
CHECK_DEADLOCK FALSE
