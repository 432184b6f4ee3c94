SPECIFICATION Spec
CONSTANTS
  Proc = {p1, p2}
  Pid = {n1, n2}
  NoFile = NoFile
  Waiter = {p1, p2}
  Releaser = {p1, p2}
  MaxCrashes = 0
INVARIANTS MutualExclusion
CHECK_DEADLOCK FALSE
