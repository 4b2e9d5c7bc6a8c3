CONSTANTS
  MaxCredits = 3
  InitCost = 2
SPECIFICATION Spec
\* The handshake ends once, in "online" or "fail".
CHECK_DEADLOCK FALSE
INVARIANTS TypeOK OnlineMeansHandshake CreditsBalanced WaitsArmed
PROPERTIES HandshakeEnds Phase3Ends
