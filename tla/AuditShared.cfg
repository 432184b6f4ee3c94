SPECIFICATION Spec
CONSTANTS
  p1 = p1  p2 = p2  g1 = g1  g2 = g2  c = c  k1 = k1  k2 = k2
  NoProc = NoProc  NoKey = NoKey
  Key = {k1, k2}
  Proc = {p1}
  Inst = {g1, c}
  ProcOf <- SharedProcOf
  SinkOf <- SharedSinkOf
  ReceiptOf <- SharedReceiptOf
  FailClosed = {g1}
  FirstKeys <- UpgradeKeys
  Rekey <- Upgrade
  Faults = {"none"}
  CanTimeout = TRUE
  MaxLogs = 4
  MaxFaults = 2
  MaxCrashes = 2
INVARIANTS AuditChained LockCountBalanced OwnSinkAccepted
CHECK_DEADLOCK FALSE
