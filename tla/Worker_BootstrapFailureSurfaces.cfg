SPECIFICATION Spec
CONSTANTS
  Kind = {named, closure}
  ClosureKind = closure
INVARIANTS BootstrapFailureSurfaces
CHECK_DEADLOCK FALSE
