SPECIFICATION FairSpec
CONSTANTS
  TCP_SOCKETS = 3
  HTTP_CONNECTIONS = 2
  TCP_TICKS_BEFORE_RESEND = 1
  TCP_MAX_RETRIES = 1
  WebPeers = {"a", "b"}
  OtherPeers = {}
  WifiMax = 0
  MaxSyns = 3
  ClosersReset = FALSE
  AnswersUnasked = FALSE
  HookReturns = {0}
INVARIANTS EstablishedIsServed
PROPERTIES ClosingEnds ResendingEnds
