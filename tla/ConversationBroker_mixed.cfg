SPECIFICATION LiveSpec
CONSTANTS
  c1 = c1
  r1 = r1
  Turns = {1, 2}
  NoTurn = noturn
  None = none
  MaxAttempt = 2
  Tasks = {1}
  Chats <- OneChat
  ModeOf <- OneQueued
  Clients = {r1}
  ChatOf <- OneRequest
  Workers = {w1}
  Operations = {"refuse", "missing"}
  Endings = {"other", "completed"}
  MaxReopen = 0
  MaxRestart = 1
INVARIANTS TypeOK SentAtMostOnce OneActiveTurn BoundToItsOwnTurn RunningTaskCompletes
PROPERTIES CompletionsAreDrained QueueMoves
CHECK_DEADLOCK FALSE
