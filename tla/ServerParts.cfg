SPECIFICATION PartsSpec
CONSTANTS
  MaxHandoffs = 2
  MaxPowers = 2
  MaxReboots = 1
  MaxStarts = 2
  MaxFaults = 2
  Consoles = {h}
  HistoryBytes = 2
  Backlog = 2
  InputChunks = 1
  MaxOutputs = 4
  MaxTyped = 3
  MaxConnections = 2
  Admins = {u, v}
  Roots = {"r0", "r1"}
  DefaultRoot = "r0"
  Proposals <- SettingsAskedFor
  Limits = {"few", "many"}
  Nothing = Nothing
  Broken = Broken
  MaxUpdates = 2
  MaxFailures = 2
  MaxMishaps = 4
  Devices = {"d1", "d2"}
  Sockets = {"s1", "s2"}
  Names = {"t0", "t1"}
  Numbers = {"n1"}
  Terminals = {"c1", "c2"}
  Relays = {"r"}
  Keys <- KeysInUse
  Fleets <- TwoFleets
  Wishes <- TwoWishes
  Absent = Absent
  MaxPlugs = 3
  Callers = {c1, c2}
  Files = {"f", "g"}
  Contents = {"long", "short"}
  Length <- LengthOf
  Preset = "short"
  PresetAt = "f"
  NoFile = NoFile
  Mixed = Mixed
  MaxCalls = 4
  Tests = {x, y, z}
  MaxRecords = 2
  MaxActive = 1
  Sizes = {3}
  Timed = Timed
  Chunk = 2
  MaxBytes = 3
  MaxTransfers = 2
  MaxOutput = 3
  RxBytes = 2
  ChunkBytes = 2
  QueueChunks = 2
  ControlMessages = 1
  MaxInputs = 1
INVARIANTS
  BindingInv HubInv SetupInv LabInv IdentityInv FilesInv
  NetTestInv SerialLinkInv
PROPERTIES FailureStays ResultStays
CHECK_DEADLOCK FALSE
