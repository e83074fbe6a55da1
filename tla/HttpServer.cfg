SPECIFICATION FairSpec
CONSTANTS
  HTTP_CONNECTIONS = 1
  HTTP_SERVER_TIMEOUT = 1
  MFS_SECTOR = 1
  Word = 4
  Directory <- MCDirectory
  Asked = {"index.html", "missing", "empty", "/d/issue?", "/d/huge", "/d/other", "/d/ws/issue", "/d/ws/other"}
  MaxRequests = 2
  MaxConnects = 2
  Kinds = {"eth", "wifi"}
INVARIANTS PageInOrder OwnCallback ClosedInTime
PROPERTIES ClosedWhenWhole ClosedWhenIdle ConnectionEnds
