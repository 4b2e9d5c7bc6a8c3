CONSTANTS
  MaxChatter = 2
  Chunks = 2
SPECIFICATION Spec
CHECK_DEADLOCK FALSE
INVARIANT PostOnlyWhenIdle
