CONSTANTS
  WAL_MAX_ARCHIVE = 3
  WAL_MAX_SIZE = 1
  FopenMayFail = TRUE
  RenameMayFail = FALSE
  MaxAppends = 10
  MaxCrashes = 3
SPECIFICATION WalFairSpec
INVARIANTS
  ReplayOrder
  SurvivesRotations
  FilesBounded
PROPERTY RotationEnds
PROPERTY ImplementsDurableLog
