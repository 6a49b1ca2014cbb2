\* Two slots: an autoloader can spawn past the one being collected, and a
\* second wait covers both; two groups: a second __construct orphans the first.
SPECIFICATION Spec
CONSTANTS
  MaxTasks = 2
  MaxArgs = 1
  MaxGroups = 2
INVARIANTS TypeOK ResultsTruthful ErrorExplainsFailure OwnedOnce
PROPERTIES WaitReturns
CHECK_DEADLOCK FALSE
