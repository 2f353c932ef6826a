SPECIFICATION ConnectionSpec
CONSTANTS
  Main = main
  Quitters = {q1}
  Attempts = 2
  MaxGen = 2
  Policy = "waits"
  Ssrcs = {a}
  SeqMod = 4
  Half = 1
  MaxRoc = 2
  MaxArrive = 4
  NoState = NoState
  Asks = 2
  NoKey = NoKey
  Senders = {s1, s2}
  Records = 3
  MaxSend = 3
  Ahead = 6
  Queries = 2
  Free = Free
  MaxBytes = 2
  MaxDatagrams = 1
  Idle = Idle
  NumTiles = 2
  NumUnits = 3
  UnitLen = 2
  Tries = 2
  MaxDropped = 1
  Texts = {x, y}
  MaxCopies = 2
  NoText = NoText
  CacheIds = {i1, i2}
  CacheSize = 1
  MaxDrawn = 3
  QueueCap = 2
  ChunkLen = 2
  Block = 3
  Late = 1
  MaxFeeds = 3
  MaxTicks = 3
INVARIANTS
  DownIsReleased OneGeneration OneTransport UpMeansReading
  NearIsAccepted HandshakeAgrees ChannelInStep FileInOrder 
  CursorAgrees SoundInOrder
PROPERTIES CallsReturn ClipboardsAgree
CHECK_DEADLOCK FALSE
