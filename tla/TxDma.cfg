SPECIFICATION FairSpec
CONSTANTS
  NlpEvery = 9
  MaxPackets = 3
  MaxKicks = 2
INVARIANTS ListsMatchInsend
PROPERTIES BufferFreeWhileFilled SentOnce DoneMeansSent WaitEnds LineIsShared
