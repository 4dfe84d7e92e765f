SPECIFICATION FairSpec
CONSTANTS
  HostCalls = 3
  LogCap = 2
  LogSizes <- Sizes
  MaxEffects = 2
  MessageCap = 4
  PipeCap = 1
  RogueIds <- Ids
VIEW InvocationView
CHECK_DEADLOCK FALSE
INVARIANT InvocationTypeOK
INVARIANT OneDispatch
INVARIANT SuccessIsCommitted
INVARIANT HonestNeverRejected
INVARIANT StopsAtFailure
INVARIANT ResponsesAwaited
PROPERTY InvocationEnds
