SPECIFICATION Spec
CONSTANTS
  Users = {u1}
  Requests = {q1, q2, q3}
  Lifetime = 1
  MaxClock = 2
  MaxRows = 3
  MaxFailures = 1
  None = None
INVARIANTS TypeOK IInv SessionsConserved LastTokenUsable
CHECK_DEADLOCK FALSE
SYMMETRY Symmetry
