SPECIFICATION HostSpec
CONSTANTS
  Root <- MCRoot
  Defs <- MCDefs
  None = None
  NumberOf <- MCNumberOf
  Files <- MCFiles
  Broken = Broken
  Texts = {"", "1", "a"}
  Digits = {"", "1"}
  Hooks <- MCHooks
  PackagePath <- MCPackagePath
  Options <- MCOptions
  MaxEdits = 2
  MaxModals = 2
  Tasks = {t1, t2}
  Processes = {p, q}
  NoLogin = NoLogin
  NoTask = NoTask
  MaxTokens = 2
  Targets = {a, b}
  NoName = NoName
  MaxStamps = 3
  MaxCommands = 2
  Mirrors <- MCMirrors
  Direct = {riscv}
  Others = {x86}
  NoArch = NoArch
  MaxReleases = 2
  MaxRuns = 2
  TopAddress = 7
  Elfs <- MCElfs
  Headers <- MCHeaders
  Addresses = {1, 6}
  Derived = Derived
INVARIANTS EditorIsHonest LoginInv OutputsAreCurrent
  GuestSeesThisRun FitIsPlacedRight
SYMMETRY HostSymmetry
CHECK_DEADLOCK FALSE
