SPECIFICATION Spec
CONSTANTS
  MaxTasks = 2
  MaxArgs = 1
  MaxGroups = 2
PROPERTIES ResultsNeverLost
CHECK_DEADLOCK FALSE
