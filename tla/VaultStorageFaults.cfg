CONSTANTS
  Passwords = {owner, other}
  Faults = {"write", "power"}
  MaxVersions = 4
SPECIFICATION FaultySpec
INVARIANTS TypeOK AckedSurvives NoStaleOpen SavableAfterOpen
PROPERTY IsRegister
