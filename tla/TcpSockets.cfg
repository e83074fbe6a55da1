SPECIFICATION Spec
CONSTANTS
  a = a
  b = b
  stranger = stranger
  TCP_SOCKETS = 3
  HTTP_CONNECTIONS = 2
  TCP_TICKS_BEFORE_RESEND = 1
  TCP_MAX_RETRIES = 0
  WebPeers = {a, b}
  OtherPeers = {stranger}
  WifiMax = 1
  MaxSyns = 3
  ClosersReset = TRUE
  AnswersUnasked = TRUE
  HookReturns = {0, 80}
SYMMETRY Symmetric
INVARIANTS LiveServesOwnSocket
