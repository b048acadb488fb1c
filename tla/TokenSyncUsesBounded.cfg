CONSTANTS
  Keys = {k1}
  Values = {v1}
  Tokens = {t1, t2}
  Absent = Absent
  Empty = Empty
  MaxTime = 4
  MaxUses = 1
  Trouble = {}
SPECIFICATION Spec
INVARIANT UsesBounded
CHECK_DEADLOCK FALSE
