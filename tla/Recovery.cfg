SPECIFICATION FairSpec
CONSTANTS
  NumTiles = 1
  ReArm = 1
  SlowReArm = 2
  Cap = 1
  Grace = 1
  Quiet = 1
  Wire = 1
  FastCooldown = 1
  ForceAfter = 2
  ForceStall = 2
  StormReset = 3
  StallGap = 2
  StallEvery = 1
  RestartGap = 2
  Idle = 2
  Fresh = 1
  Worlds <- MCWorlds
PROPERTIES PictureReturns EscalationEnds FlagClears
