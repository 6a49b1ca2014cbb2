SPECIFICATION Spec
CONSTANTS
  Statements <- MCStatements
  Separators <- MCSeparators
  MaxStatements = 3
INVARIANTS CopiesTheClosure CopiesTheFirstFunction
CHECK_DEADLOCK FALSE
