SPECIFICATION Conversion
CONSTANTS
  Classes <- MCClasses
  StdClass <- MCStdClass
  ClassOf <- MCClassOf
  Objects <- MCObjects
  Cells <- MCCells
  Roots <- MCRoots
  Known <- MCKnown
  References <- MCReferences
  Zvals <- MCZvals
  Keys <- MCKeys
  Addresses = {1, 2, 3, 4, 5}
  MaxDepth = 2
INVARIANTS AlwaysSucceeds
CHECK_DEADLOCK FALSE
