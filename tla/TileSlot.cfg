SPECIFICATION Spec
CONSTANTS
  MaxFrames = 4
  MaxResets = 1
INVARIANT NewFrameIsJudged
CHECK_DEADLOCK FALSE
