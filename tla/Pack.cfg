SPECIFICATION Spec
CONSTANTS
  G = 3
  W = 7
  Inputs <- PackInputs
INVARIANTS TypeOK RoundTrip WrongLengthRejected NothingLeaks
CHECK_DEADLOCK FALSE
