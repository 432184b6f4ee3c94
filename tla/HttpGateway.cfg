SPECIFICATION FairSpec
CONSTANTS
  own = own  shared = shared  ann = ann  bob = bob
  Token = {own, shared}
  Shared = shared
  Person = {ann, bob}
  Consumer = consumer
  Nobody = nobody
  Contents <- TwoFiles
  Missing = missing
  Broken = broken
  NoPrint = noprint
  Client = {c1}
  Session = {s1, s2, s3}
  NoSession = nosession
  Request = {r1, r2}
  PerWindow = 1
  Window = 1
  IdleAfter = 1
  MaxSessions = 1
INVARIANTS NobodySpeaksForAnother RateKept OverrunBounded
PROPERTIES IdleSessionsGo

