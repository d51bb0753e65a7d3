SPECIFICATION Spec
CONSTANTS
  Turns = {turn}
  NoTurn = noturn
  MaxAttempt = 2
  Tasks <- OneTask
  NoTask = notask
  Projects = {p1}
  NoProject = noproject
  ProjectOf <- OneProject
  RemixTasks <- NoRemix
  AppServerTasks <- LegacyOnly
  Limits = {1}
  Operations = {"cancel"}
  Endings <- AllEndings
  MaxReopen = 0
  MaxRestart = 0
PROPERTIES CancelIsAuthoritative
CHECK_DEADLOCK FALSE
