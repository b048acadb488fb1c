CONSTANTS
  p1 = p1
  p2 = p2
  Processes = {p1, p2}
  NoProcess = NoProcess
  Timeout = 3
  RetryDelay = 1
  HomeHas = {"lock"}
  LegacyHas = {"vault", "bak", "lock"}
  InLegacyDir = {p1, p2}
  MaxUpdates = 5
SPECIFICATION FairSpec
INVARIANTS TypeOK Exclusive NoLostUpdate
PROPERTIES GivesUpOnlyWhenBusy StopsWaiting
