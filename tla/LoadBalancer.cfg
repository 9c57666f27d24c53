SPECIFICATION FairSpec
CONSTANTS
  Configs <- MCConfigs
  Endpoints <- MCEndpoints
  Reports <- MCReports
  endpointWithPort <- MCAddress
  MayFail = {"b:55"}
  Ids <- MCIds
  Requests <- MCRequests
  Calls = {c1, c2}
  MaxGen <- MCMaxGen
  MaxCount = 2
  EndpointFor <- MCEndpointFor
  Crc32 <- MCCrc32
  Rank <- MCRank
  Weight = 3
  MaxPositions = 10
  ProbeLimit = 2

INVARIANTS RingIsFair RingAnswers RunningIsListed RingIsServed WaitGroupExact
PROPERTIES ShutdownWaits TracesShutdownEnds TracesRemovedGoDown
CHECK_DEADLOCK FALSE
