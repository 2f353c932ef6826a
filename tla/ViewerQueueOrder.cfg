\* ForwardOrder: the page skips a late unit and feeds it when it comes
SPECIFICATION QueueSpec
CONSTANTS
  MaxFrames = 3
  MaxStreams = 3
  MaxConfigs = 2
  MaxErrors = 1
  HighWater = 1
  GapMax = 1
  Nothing = Nothing
INVARIANTS ForwardOrder
CHECK_DEADLOCK FALSE
