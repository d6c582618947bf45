CONSTANTS
  Calls = {c1, c2, c3, c4}
  Domains = {d1}
  Slots = 2
  None = None
SPECIFICATION FairSpec
INVARIANTS
  SemaphoreIsExact
  OneHandlerPerDomain
PROPERTIES
  EveryCallEnds
