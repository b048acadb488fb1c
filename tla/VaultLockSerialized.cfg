CONSTANTS
  p1 = p1
  p2 = p2
  Processes = {p1, p2}
  NoProcess = NoProcess
  Timeout = 2
  RetryDelay = 1
  HomeHas = {"vault", "lock"}
  LegacyHas = {"vault"}
  InLegacyDir = {p1, p2}
  MaxUpdates = 5
SPECIFICATION Spec
PROPERTY Serialized
