SPECIFICATION FrontendsSpec
CONSTANTS
  Viewers = {v1, v2}
  Slots = {s1, s2}
  MaxTimers = 1
  None = None
  MaxFrames = 3
  MaxStreams = 2
  MaxConfigs = 2
  MaxErrors = 1
  HighWater = 1
  GapMax = 1
  Nothing = Nothing
  Clients = {a, b}
  MaxCasts = 1
  NoClient = NoClient
  Launches = {l1, l2}
  Nobody = Nobody
  Pages = {p1, p2}
  Recent = 3
  ForceEvery = 2
  MaxLost = 2
  MaxGrey = 1
  MaxDown = 1
  Unseen = Unseen
INVARIANTS WindowKeepsChain OneChild
PROPERTIES ConfigFirst SessionComes TeardownEnds  CloseReleases
\* the loop may wait for itself: see ViewerBridgeDeadlock.cfg
CHECK_DEADLOCK FALSE
