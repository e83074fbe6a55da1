SPECIFICATION FairSpec
CONSTANTS
  Sockets = 2
  STORESIZE = 8
  GlobalHeader = 1
  Overhead = 1
  DataLengths = {2}
  CLIENTENTRIES = 2
  Macs = {"a", "b", "c"}
  Word = 4
  Second = 2
  MaxTime = 4
  MaxHeard = 3
  MaxSyns = 2
INVARIANTS TypeOK CapturesOwnSocket StreamIsPcap TimeIsKept
PROPERTIES DropsOldest CaptureGoesOn
