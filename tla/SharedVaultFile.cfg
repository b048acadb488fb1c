CONSTANTS
  Faults = {"write", "power"}
  MaxVersions = 4
SPECIFICATION Spec
INVARIANTS TypeOK AckedSurvives BuildsOnLatest
PROPERTY IsRegister
