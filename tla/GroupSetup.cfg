SPECIFICATION FairSetupSpec
CONSTANTS
  a = a
  b = b
  Workers = {a, b}
  Ports = {1, 2, 3, 4, 5, 6}
  NoWorker = NoWorker
  NoPort = 0
  Leaders <- TestLeaders
  Pairs <- TestPairs
  MaxLaunches = 2
INVARIANTS
  PortsExclusive
  OneMaster
  PeerFindsMaster
PROPERTY SetupEnds
CHECK_DEADLOCK FALSE
