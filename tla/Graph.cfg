SPECIFICATION Spec
CONSTANTS
  camera = camera
  pose = pose
  hand_pose = hand_pose
  slr = slr
  c1 = c1
  c2 = c2
  c3 = c3
  c4 = c4
  a = a
  b = b
  frame = frame
  Keys <- GraphKeys
  Deps <- GraphDeps
  Events = {frame}
  Calls = {c1, c2}
  CallClient <- MCCallClient
  CallKey <- GraphCallKey
  CallEvent <- MCCallEvent
  MaxOutages = 0
  MaxTimeouts = 0
  MaxPublished = 0
  MaxShutdowns = 0
INVARIANTS
  DependenciesRun
  ReconciledAtRest
CHECK_DEADLOCK FALSE
