CONSTANTS
  SortedKeys <- MCKeys
  Values <- MCValues
  MaxSets = 2
SPECIFICATION Spec
INVARIANTS TypeOK RoundTrip InterruptedExport
PROPERTIES ClearsOwnText SecretLeavesClipboard
