CONSTANTS
  Passwords = {old, new}
  Faults = {}
  MaxVersions = 3
SPECIFICATION Spec
PROPERTY BadPasswordKeepsPrimary
