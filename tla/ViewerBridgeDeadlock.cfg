SPECIFICATION Spec
CONSTANTS
  Viewers = {v1, v2}
  Slots = {s1, s2}
  MaxTimers = 1
  None = None
INVARIANT LateJoinerServed
