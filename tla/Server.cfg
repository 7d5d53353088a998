SPECIFICATION Spec
CONSTANTS
  Calls = {c1, c2}
  Users = {u1}
  OwnUsers = {u1}
  HasBuiltin = TRUE
  MaxRestarts = 1
  Sources = {"a", "b"}
  Installers = {c1, c2}
  HasOriginal = TRUE
  MaxCrashes = 2
  MaxBases = 2
  MaxInstalls = 2
  LegacyKeys = {"status", "matrix"}
  Odd = {"settings"}
  Values = {v1}
  MaxWrites = 2
  MaxFailures = 2
  MaxBytes = 1
  MaxFiles = 2
  MaxBacklog = 2
  MaxLogs = 5
  MaxClock = 2
  MaxErrors = 1
  MaxDeaths = 1
  System = "system"
  App = "app"
  Cameras = {k1, k2}
  Mics = {m1}
  Rates = {r1}
  SettingsCommands = {c1, c2}
  MaxSettingsChanges = 2
  MaxStarts = 2
  MaxRefusals = 1
  Drivers = {cam, pose, beat}
  RoutingGraphs <- MyGraphs
  RoutingBindings = {a1, a2}
  Devices = {1}
  Clients = {c1, c2}
  MaxLeases = 2
  MaxRoutingChanges = 1
  Shows = {s1, s2}
  AutoShows = {s1, s2}
  Windows = {w1}
  MaxJoins = 2
  MaxShowStarts = 3
  Slugs = {"pool", "calib"}
  Builtins = {"calib"}
  Manifests = {{}, {"logs:read", "calibration:write"}}
  Conns = {w1}
  Batches <- MyBatches
  MaxCommands = 1
  MaxGatewayChanges = 2
  cam = cam
  pose = pose
  beat = beat
INVARIANTS ServerTypeOK AppsAreSafe  DriversAreRouted
PROPERTIES NewerStays ServerSettles
CHECK_DEADLOCK FALSE
