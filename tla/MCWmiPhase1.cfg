CONSTANTS
  MaxCredits = 3
  InitCost = 2
SPECIFICATION Spec
CHECK_DEADLOCK FALSE
INVARIANT Phase1EndsOnTimeoutOrParse
