CONSTANTS
  Modes = {"warn", "block"}
  MaxBackups = 1
  MaxSaves = 4
  MaxCopies = 2
SPECIFICATION Spec
INVARIANTS TypeOK NoUnnoticedRollback RevisionsUnique FreshnessIsHonest BackupKept TestRecoveryIsHonest
