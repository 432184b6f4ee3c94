SPECIFICATION FairSpec
CONSTANTS
  Proc = {p1, p2, p3}
  Pid = {n1, n2, n3, n4}
  NoFile = NoFile
  Waiter = {p1, p2}
  Releaser = {p1}
  MaxCrashes = 1
INVARIANTS BootExclusion
PROPERTIES DeadOwnerIsOutlived
CHECK_DEADLOCK FALSE
