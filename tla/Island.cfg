SPECIFICATION IslandSpec
CONSTANTS
  Names = {n1, n2, n3, n4}
  MaxCapacity = 3
  Packs = {0, 1, 2, 3}
  Fuels = {0, 1, 2}
  Window = 20
  Histories <- MCHistories
  Epsilon = 2
SYMMETRY NameSymmetry
INVARIANTS
  FrontsAreRanks
  SweepIsTheFirstFront
  RemediesEscalate
PROPERTIES
  TruncationIsFair
