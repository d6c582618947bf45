SPECIFICATION FairSpec
CONSTANTS
  Clients = {c1, c2, c3}
  MaxMessages = 3
CHECK_DEADLOCK FALSE
INVARIANTS
  EventsAreForwarded
  MissesAreDepartures
PROPERTIES
  ListenerCatchesUp
