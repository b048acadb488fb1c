CONSTANTS
  Keys = {k1}
  Values = {v1}
  Tokens = {t1, t2}
  Absent = Absent
  Empty = Empty
  MaxTime = 4
  MaxUses = 1
  Trouble = {"mirror"}
SPECIFICATION Spec
INVARIANT DeletesStayDeleted
CHECK_DEADLOCK FALSE
