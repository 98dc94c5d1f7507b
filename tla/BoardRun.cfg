CONSTANTS
  p1 = p1
  p2 = p2
  s1 = s1
  s2 = s2
  d1 = d1
  d2 = d2
  d3 = d3
  Procs = {p1, p2}
  Ports = {s1, s2}
  Leaves = {d1, d2, d3}
  Leftover = {d3}
  Board = Board
  None = None
  Plans <- MCPlans
  CmdTries = 3
SPECIFICATION Spec
CHECK_DEADLOCK FALSE
INVARIANTS RunIsHonest NothingLeftBehind
PROPERTY BoardComesBack
