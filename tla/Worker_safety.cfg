\* Every path of one task; named stands for the function and method kinds,
\* which take the same path.
SPECIFICATION Spec
CONSTANTS
  Kind = {named, closure}
  ClosureKind = closure
INVARIANTS TypeOK HonoursContract RecordedIsReported CleanupBalanced
PROPERTIES ImplementsRunner
CHECK_DEADLOCK FALSE
