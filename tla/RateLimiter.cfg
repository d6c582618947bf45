SPECIFICATION Spec
CONSTANTS
  Domains = {d1}
  Calls = {c1, c2, c3}
  Nobody = Nobody
  None = None
  Token = 2
  Rate = 1
  Capacity = 3
  Backoffs = {1, 4}
  MaxTime = 5
SYMMETRY CallSymmetry
INVARIANTS
  RateBound
  SleepIsBounded
PROPERTIES
  NoGrantDuringCooldown
