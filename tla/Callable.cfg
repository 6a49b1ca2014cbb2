SPECIFICATION Spec
CONSTANTS
  Callables <- MCCallables
INVARIANTS TypeOK OwnsItsRecipe CallsTheSame
CHECK_DEADLOCK FALSE
