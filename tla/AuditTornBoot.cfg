SPECIFICATION Spec
CONSTANTS
  p1 = p1  p2 = p2  g1 = g1  g2 = g2  c = c  k1 = k1  k2 = k2
  NoProc = NoProc  NoKey = NoKey
  Key = {k1, k2}
  Proc = {p1}
  Inst = {g1, c}
  ProcOf <- SharedProcOf
  SinkOf <- SharedSinkOf
  ReceiptOf <- SharedReceiptOf
  FailClosed = {}
  FirstKeys <- SharedKeys
  Rekey <- NoRekey
  Faults = {"cut"}
  CanTimeout = FALSE
  MaxLogs = 3
  MaxFaults = 1
  MaxCrashes = 1
INVARIANTS OwnSinkAccepted
CHECK_DEADLOCK FALSE
