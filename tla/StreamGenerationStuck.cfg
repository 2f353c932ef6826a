SPECIFICATION FairSpec
CONSTANTS
  Codecs = {"avc"}
  Canvases = {a, b}
  Groups = {1, 2}
  FirstCanvas = a
  FirstGroup = 1
  Parts = {sps, pps}
  Threshold = 1
  MaxFlight = 1
  MaxEvents = 2
  None = None
PROPERTY EveryResizeFollows
