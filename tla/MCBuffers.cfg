CONSTANTS
  WordMod = 64
  SvcEvSize = 6
  RdyEvSize = 4
  VersionSize = 3
  MaxRecs = 3
  Records <- MCRecords
  TailSize = 14
  LineSize = 6
  LineLens = {1, 3, 5, 6, 9}
  MaxLines = 6
SPECIFICATION Spec
\* A walk ends with its result, the log with its last line.
CHECK_DEADLOCK FALSE
INVARIANTS InStep FwRight BoardRight TlvRight CreditsRight TailIsRecentLog
PROPERTY WalkEnds
