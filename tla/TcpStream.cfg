SPECIFICATION SSpec
CONSTANTS
  TCP_SOCKETS = 2
  HTTP_CONNECTIONS = 1
  TCP_TICKS_BEFORE_RESEND = 1
  TCP_MAX_RETRIES = 1
  WebPeers = {"a"}
  OtherPeers = {}
  WifiMax = 0
  MaxSyns = 1
  ClosersReset = FALSE
  AnswersUnasked = FALSE
  HookReturns = {0}
  Client = "a"
  MaxRequest = 3
  MaxAnswers = 3
INVARIANTS CanSendMeansReceived
PROPERTIES ImplementsStreams
