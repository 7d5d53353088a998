SPECIFICATION Spec
CONSTANTS
  ThreadEvents = {frame, color}
  Subscribed = {frame}
  MaxSize = 1
  MaxRequests = 2
  MaxWorkers = 2
  MaxValues = 1
  Streams = {"frame"}
  Buffers = {"audio"}
  MaxPosts = 3
  Cams = {c1, c2}
  Devices = {0, 1}
  CameraModes = {hd}
  StartModes = {hd}
  MaxOps = 4
  Rates = {good, other}
  ModelRate = good
  BlockLen = 3
  Chunk = 2
  MicQueue = 1
  VadQueue = 2
  MaxBlocks = 2
  MaxReopens = 2
  MaxResets = 1
  SpeakerRates = {low, high}
  FirstRate = low
  Lengths = {1, 3}
  Block = 2
  MaxPlays = 2
  MaxOpens = 1
  MaxUnderflows = 2
  Width = 2
  MaxBalls = 2
  Near = 2
  Far = 3
  MaxMiss = 2
  RenderMiss = 1
  MaxFrames = 4
  MaxReloads = 1
  PoseModels = {m16, m17}
  WithFace = {m16}
  Window = 2
  SignQueue = 1
  MaxStamp = 1
  MaxPoses = 3
  MaxLoads = 2
  MaxSets = 1
  HandsHands = {lefthand, right}
  Homographies = {h1}
  MaxFailures = 3
  MaxHandFrames = 4
  MaxChanges = 2
  Goals = {0, 4}
  Amount = 2
  MaxJobs = 2
  Bridges = {p1, p2}
  Loaders = {l1, l2}
  MaxDownloads = 2
  MaxBridgeDeaths = 1
  lefthand = lefthand
  h1 = h1
  p1 = p1
INVARIANTS PythonTypeOK DriversAreSound
PROPERTIES PythonSettles
CHECK_DEADLOCK FALSE
