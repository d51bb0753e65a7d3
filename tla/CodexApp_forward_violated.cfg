SPECIFICATION FairSpec
CONSTANTS
  k1 = k1
  k2 = k2
  Calls = {k1, k2}
  Instances = {1, 2}
  NoCall = nocall
  NoInstance = noinstance
  Buffer = 1
  RpcBuffer = 1
  Operations = {"crash"}
  MaxNotes = 1
  MaxFaults = 1
PROPERTIES NotificationsArrive
CHECK_DEADLOCK FALSE
