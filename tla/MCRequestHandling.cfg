SPECIFICATION HandlingFairSpec
CONSTANTS
  r1 = r1
  r2 = r2
  Requests <- MCRequests
  Sent <- MCSent
CHECK_DEADLOCK FALSE
INVARIANTS
  TypeOK
  HandlingTypeOK
  ReplyTellsOutcome
  RepliesIdentified
  NoSilentReply
  HandlerNeverStuck
  ShutdownNeverStuck
PROPERTIES
  NoRequestAfterShutdown
  ExitsAfterSignal
  EveryRequestAnswered
