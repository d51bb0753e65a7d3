SPECIFICATION LiveSpec
CONSTANTS
  Turns = {turn}
  NoTurn = noturn
  MaxAttempt = 2
  Tasks <- ThreeTasks
  NoTask = notask
  Projects = {p1}
  NoProject = noproject
  ProjectOf <- OneProject
  RemixTasks <- NoRemix
  AppServerTasks <- AppFirst
  Limits = {2}
  Operations = {"close"}
  Endings = {"failed", "completed"}
  MaxReopen = 0
  MaxRestart = 0
INVARIANTS TypeOK ProjectExclusive TablesMatchRuns
PROPERTIES QueuedIsDispatched RunsEnd MeetsContract
CHECK_DEADLOCK FALSE
