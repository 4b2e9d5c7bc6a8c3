CONSTANTS
  MaxChatter = 3
  Chunks = 2
SPECIFICATION Spec
\* The bring-up ends once, in "online" or "fail".
CHECK_DEADLOCK FALSE
INVARIANTS TypeOK AnswersMatch BufferIsEntry ConfusedOnlyAfterOtp OnlineMeansFirmware BootsWhole
PROPERTY BringUpEnds
