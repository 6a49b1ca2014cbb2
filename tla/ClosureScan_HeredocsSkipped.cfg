SPECIFICATION Spec
CONSTANTS
  Statements <- MCStatements
  Separators <- MCSeparators
  MaxStatements = 3
INVARIANTS HeredocsSkipped
CHECK_DEADLOCK FALSE
