SPECIFICATION FairSpec
CONSTANTS
  p1 = p1  p2 = p2  g1 = g1  g2 = g2  c = c  k1 = k1  k2 = k2
  NoProc = NoProc  NoKey = NoKey
  Key = {k1, k2}
  Proc = {p1, p2}
  Inst = {g1, g2}
  ProcOf <- GatewayProcOf
  SinkOf <- GatewaySinkOf
  ReceiptOf <- GatewayReceiptOf
  FailClosed = {g1, g2}
  FirstKeys <- GatewayKeys
  Rekey <- NoRekey
  Faults = {"none", "cut", "open"}
  CanTimeout = TRUE
  MaxLogs = 3
  MaxFaults = 1
  MaxCrashes = 1
INVARIANTS TypeOK ReceiptsChained ServedIsRecorded ReceiptHasAuditLine
PROPERTIES LogReturns
CHECK_DEADLOCK FALSE
