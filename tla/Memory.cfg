CONSTANTS
    Threshold = 2
    KeepLogs = 3
    ChunkSize = 1
    RrfK = 60
    SearchLimit = 4
    Pages = {p1, p2}
    p1 = p1
    p2 = p2
    MaxCycles = 5
    MaxRules = 2
    MaxCrashes = 1
SYMMETRY Symmetry
SPECIFICATION Spec
INVARIANTS
  SummariesFollow
  IndexIsSound
  AgreementWins
  SyncLeavesNoGap
PROPERTIES
  DeletesForAReason
