SPECIFICATION RecoverySpec
CONSTANTS
  Retain = 2
  MaxJobs = 3
  MaxRestores = 2
CHECK_DEADLOCK FALSE
INVARIANTS
  SoundBackupOutlives
  RestoresTheLastBackup
