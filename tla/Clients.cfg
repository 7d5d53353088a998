SPECIFICATION Spec
CONSTANTS
  Events = {e1, e2}
  Uses = {{"events"}, {"resource"}}
  Denied = {e2}
  MaxHolds = 2
  MaxShare = 2
  MaxConnections = 2
  MaxMessages = 2
  Values = {a, b}
  MaxChanges = 2
  MaxLiveDrops = 1
  MaxRequests = 1
  Layers = {"game", "hud"}
  Exclusive = {"game", "hud"}
  Persistent = {"hud"}
  MaxRenderFailures = 2
  MaxJobs = 2
  FailingFrames = 2
  MaxRuntimeDrops = 2
  Exps = {game, flow}
  Own = game
  MaxAttempts = 2
  MaxStarts = 3
  MaxMainDrops = 1
  Flow = flow
  Ids = {1, 2, 3, 4}
  MaxCloses = 1
  MaxCuts = 1
  Users = {p1, p2}
  Cleaners = {c1}
  MaxDeaths = 1
  MaxAges = 1
  Points = {p}
  NCorners = 1
  Positions = {near, far}
  CalibInitial = near
  MaxEvents = 1
  MaxFailures = 1
  Focuses = {f1, f2, f3}
  FocusInitial = f1
  MaxValues = 4
  MaxErrors = 1
  Urls = {u1, u2, bad}
  Refused = {bad}
  OldUrl = u1
  MaxBackoff = 2
  MaxUrlChanges = 2
  MaxBatches = 1
  MaxSockets = 4
  AutoStop = {s1}
  OpenFrames = 2
  CardFrames = 1
  ArrowFrames = 1
  Cooldown = 3
  ArmedFrames = 2
  CloseFrames = 2
  StopFrames = 3
  MaxOpenings = 2
  s1 = s1
  s2 = s2
INVARIANTS ClientsTypeOK ConnectionsAreSound 
PROPERTIES ClientsSettle
CHECK_DEADLOCK FALSE
