CONSTANTS
  Targeted = TRUE
  HasDuration = TRUE
  RingCap = 2
  MaxEmits = 4
SPECIFICATION Spec
\* A session ends.
CHECK_DEADLOCK FALSE
INVARIANTS
  TypeOK
  NothingHeld
  ExitComplete
PROPERTIES
  Terminates
