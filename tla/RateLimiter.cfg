SPECIFICATION Spec
CONSTANTS
  Handlers = {h1, h2, h3}
  Capacity = 3
  Cost = 2
  TTL = 5
  MaxDelay = 2
  MaxClock = 7
  MaxLost = 1
SYMMETRY Symmetry
INVARIANTS TypeOK IInv GrantedBounded NotStarved
CHECK_DEADLOCK FALSE
