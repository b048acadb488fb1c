CONSTANTS
  ScryptNs = {32768, 65536}
  ScryptRs = {8}
  ScryptPs = {1}
  KeySizes = {32}
  Memories = {1024, 65536}
  Times = {3}
  Threads = {1}
  MaxKeys = 2
SPECIFICATION Spec
INVARIANTS TypeOK SavedFilesOpen ReferenceReads KeyKept
PROPERTIES KeepsOpening KeyStable
