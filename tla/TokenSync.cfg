CONSTANTS
  Keys = {k1}
  Values = {v1, v2}
  Tokens = {t1}
  Absent = Absent
  Empty = Empty
  MaxTime = 5
  MaxUses = 1
  Trouble = {"crash", "save", "mirror", "import", "rotate", "restore"}
SPECIFICATION Spec
SYMMETRY Symmetry
INVARIANTS TypeOK LastWriteWins NoStaleImport ImportSettles PreviewAgrees RevokedStaysRevoked UsableTokensAreListed LiveTokensAreUsable TextsMeanWhatTheySay
CHECK_DEADLOCK FALSE
