\* Each part alone, on an instance of its own (TicksPerSec is 24 for the sound and for the GIF).
CONSTANTS
  NoOne = NoOne
  Blank = Blank
  NoToast = NoToast
  NoEncoder = NoEncoder
  Starters = {r1, r2}
  Regions = {r2}
  MaxPauses = 1
  Toasts = {x1, x2}
  Unreadable = {x2}
  MaxZoom = 1
  MaxShows = 3
  MaxInput = 3
  MaxJobs = 2
  Refreshers = {r1, r2}
  MaxFlips = 2
  MaxClicks = 1
  Users = {u1, u2}
  Budget = 5
  Longest = 4
  MaxOther = 1
  Handles = {h1}
  Titles = {x1, x2}
  Calls = {u1, u2}
  Stuck = 1
  MaxMoves = 1
  Clients = {u1, u2}
  LogMax = 2
  MaxBatch = 2
  Endpoints = {"loopback", "exact"}
  Rates = {3, 6}
  SampleRate = 4
  TicksPerSec = 24
  Break = 2
  Plausible = 30
  ReopenInterval = 12
  ReopenGiveUp = 36
  ZeroCrossings = 2
  MaxPhases = 3
  PacketSizes = {1, 3}
  MaxPackets = 3
  MaxWaiting = 2
  MaxLosses = 1
  MaxNow = 72
  Tolerance = 1
  Fps = {5, 7}
  MaxWidth = 6
  MaxFrames = 3
  MinDelay = 2
  MaxDelay = 200
  Gaps = {1, 2, 3, 30}
  FrameSizes <- MCFrames
  Apertures <- MCApertures
  MaxSamples = 3
  Sessions = {u1, u2}
  TrialFrames = 1
  RecordedFrames = 2
  Room = 1
  MaxEncoders = 2
  MaxErrors = 1
  MaxLate = 1
  DisplaySizes <- MCDisplays
  AskedRegion <- MCAsked
  PoolBuffers = 2
  MaxPictures = 4
  MaxShots = 3
  Requesters = {u1}
  Newest = 2
  MaxProcesses = 2
SPECIFICATION Spec
INVARIANTS
  DesktopTypeOK
  WindowsKeepUp
  AnswersAreWhole
  CapturesAreTrue
  UpdatesAreSafe
VIEW Moving
CHECK_DEADLOCK FALSE
