SPECIFICATION AllSpec
CONSTANTS
  Workers = {w1, w2}
  QueueMax = 1
  MaxRestarts = 2
  Nobody = Nobody
  Tiles = {0, 1}
  Limit = 2
  Backlog = 2
  MaxJams = 2
  MaxLost = 1
  Keys = 4
  MaxRebuilds = 2
  Accels = 2
  BurstEvery = 2
  BurstErrors = 1
  BurstWindow = 1
  BurstMin = 1
  MaxBurst = 4
  MaxAgain = 1
  WinSizes = {1, 3}
  FirstSize = 3
  Cap = 2
  MaxResizes = 1
  MaxLayouts = 1
  MaxShapes = 1
  Unset = Unset
  MaxActs = 5
  MaxQueue = 2
  Panes = {p1, p2}
  Buttons = {left, right}
  Motions = {1, 5}
  Tick = 2
  EmitMax = 1
  WheelCap = 3
  MaxMoves = 5
  NoPane = NoPane
INVARIANTS
  CodecStands
  BestThatStarts
  HoleHidden
  DesktopFollows
  InputLetsGo
PROPERTIES
  FeedReturns
  AwaitEnds
CHECK_DEADLOCK FALSE
