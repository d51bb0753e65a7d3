SPECIFICATION Spec
CONSTANTS
  c1 = c1
  r1 = r1
  Turns = {1, 2}
  NoTurn = noturn
  None = none
  MaxAttempt = 2
  Tasks = {1}
  Chats <- OneChat
  ModeOf <- OneAuto
  Clients = {r1}
  ChatOf <- OneRequest
  Workers = {w1}
  Operations = {}
  Endings = {"completed"}
  MaxReopen = 0
  MaxRestart = 0
PROPERTIES QueuedTaskKeepsItsPlace
CHECK_DEADLOCK FALSE
