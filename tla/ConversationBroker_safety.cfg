SPECIFICATION Spec
CONSTANTS
  c1 = c1
  c2 = c2
  c3 = c3
  r1 = r1
  r2 = r2
  r3 = r3
  r4 = r4
  w1 = w1
  w2 = w2
  noturn = noturn
  none = none
INVARIANTS OneOfEach RecordsAreTrue
PROPERTIES EndsStand
CHECK_DEADLOCK FALSE
