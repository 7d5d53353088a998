SPECIFICATION Spec
CONSTANTS
  camera = camera
  pose = pose
  hand_pose = hand_pose
  slr = slr
  c1 = c1
  c2 = c2
  c3 = c3
  c4 = c4
  a = a
  b = b
  frame = frame
  Keys <- MCKeys
  Deps <- MCDeps
  Events = {frame}
  Calls = {c1, c2, c3, c4}
  CallClient <- MCCallClient
  CallKey <- MCCallKey
  CallEvent <- MCCallEvent
  MaxOutages = 0
  MaxTimeouts = 0
  MaxPublished = 0
  MaxShutdowns = 0
INVARIANTS
  TypeOK
  BeliefsAreTrue
  OneRequestPerInstance
  NoLostWakeup
PROPERTIES
  SubscribedMeansRunning
CHECK_DEADLOCK FALSE
