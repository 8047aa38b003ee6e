SPECIFICATION FairSpec
CONSTANTS
  p1 = p1
  r1 = r1
  r2 = r2
  Projects <- OneProject
  Requests <- TwoRequests
  Offers <- AnyBesideAStart
  PerProject = 2
  UidStart = 1
  UidStride = 2
  UidMax = 5
  None = None
INVARIANTS TypeOK OneEnginePerProject StoppedStaysStopped RunningIsRestored NoUnownedEngine SocketReachesTheEngine
PROPERTIES UidsNeverRecycled RoutesOpen
