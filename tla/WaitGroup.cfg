\* Three tasks: growth of the array (1, 2, 4), two decrements racing while a
\* third thread starts or is refused, a wait in the middle of the spawns, and a
\* group created again after destruction.
SPECIFICATION Spec
CONSTANTS
  MaxTasks = 3
  FirstCap = 1
  Outcome = {success, failure}
  Blank = blank
INVARIANTS TypeOK RemainingExact NoUseAfterFree SleeperHasWaker SettledComplete
PROPERTIES SettledStable EveryCallReturns ImplementsAPI
