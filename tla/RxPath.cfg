SPECIFICATION CFairSpec
CONSTANTS
  RXBUFS = 2
  BlockLen = 4
  MaxLen = 2
  Runt = 1
  PreWords = 5
  GapWords = 1
  LineWords = 3
  MaxFrames = 3
  Lossy = TRUE
  LossToo = FALSE
INVARIANTS NoLeakedBuffer BoundedOvertaking
PROPERTIES BufferStableWhileRead DeliveredOnce ImplementsFairPool LockedStoreKept
