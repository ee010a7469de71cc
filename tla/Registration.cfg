SPECIFICATION Spec
CONSTANTS
  Emails = {e1}
  Registrations = {r1, r2}
  Attempts = {v1, v2}
  MaxTries = 2
  MaxFailures = 1
  None = None
INVARIANTS TypeOK IInv AccountWasProved  GuessesBounded AccountIsCompleted
CHECK_DEADLOCK FALSE
SYMMETRY Symmetry
