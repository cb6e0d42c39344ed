SPECIFICATION FairSpec
CONSTANTS
  d1 = d1
  s1 = s1
  Daemons = {d1}
  SdkAgents = {s1}
  NoOne = NoOne
  MaxAgents = 2
  MaxRuns = 2
  MaxDeaths = 1
INVARIANTS LinkMeansRegistered NoUseAfterFree
PROPERTIES DaemonComesBack WaitsEnd StopEnds
