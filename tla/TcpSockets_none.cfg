SPECIFICATION Spec
CONSTANTS
  TCP_SOCKETS = 3
  HTTP_CONNECTIONS = 3
  TCP_TICKS_BEFORE_RESEND = 1
  TCP_MAX_RETRIES = 0
  WebPeers = {"a", "b"}
  OtherPeers = {"s"}
  WifiMax = 0
  MaxSyns = 4
  ClosersReset = TRUE
  AnswersUnasked = TRUE
  HookReturns = {0}
PROPERTIES NoneOnlyWhenClosed
