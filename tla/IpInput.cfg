SPECIFICATION FairSpec
CONSTANTS
  Peers = {"a", "b", "c"}
  Ports = {"p"}
  BROWSE_CLIENTS_LIST_SIZE = 2
  BROWSE_SEARCHES = 2
  Pauses = {1, 2}
  MaxCommands = 3
  Hosts = {"h", "k"}
  EthPorts = {"1"}
INVARIANTS ListsPeers AnswersSender
PROPERTIES ProbesAnswered SearchEnds
