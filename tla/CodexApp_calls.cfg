SPECIFICATION Spec
CONSTANTS
  k1 = k1
  k2 = k2
  Calls = {k1, k2}
  Instances = {1, 2}
  NoCall = nocall
  NoInstance = noinstance
  Buffer = 1
  RpcBuffer = 1
  Operations = {"cancel", "close", "crash", "badframe", "startfault", "refuse"}
  MaxNotes = 2
  MaxFaults = 2
INVARIANTS TypeOK OneProcess StatusIsTrue CloseLeavesNothing CallersAreServed
SYMMETRY CallSymmetry
CHECK_DEADLOCK FALSE
