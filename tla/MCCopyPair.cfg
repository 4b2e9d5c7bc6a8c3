CONSTANTS
  RingN = 4
  PollBudget = 2
  MaxSend = 5
  MaxEvents = 5
SPECIFICATION Spec
INVARIANTS TypeOK SendOkMeansDelivered RxQuietWhileRead
PROPERTIES TxHeldUntilConsumed ImplementsChannel CallsReturn SentIsDelivered
