SPECIFICATION Spec
CONSTANTS
  turn = turn
  noturn = noturn
  notask = notask
  p1 = p1
  noproject = noproject
INVARIANTS RunsAreAccountedFor PhasesAreInOrder NothingIsForgotten
PROPERTIES EndsStand
CHECK_DEADLOCK FALSE
