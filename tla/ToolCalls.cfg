SPECIFICATION FairSpec
CONSTANTS
  c1 = c1  c2 = c2  pg = pg  rest = rest  wiki = wiki  own = own  ann = ann  bob = bob
  strict = strict  None = None
  Call = {c1, c2}
  Tool = {"list_tables", "describe_table", "query", "search"}
  Connector = {pg, rest, wiki, own}
  Unreachable = {pg}
  Person = {ann, bob}
  Profile = {strict}
  PerUser = {ann}
  Table <- MCTable
  Sql <- MCSql
  Type <- MCType
  Holds <- MCHolds
  Guard <- MCGuard
  Reads <- MCReads
  Whole <- MCWhole
  Simple <- MCSimple
  AtMost <- MCAtMost
  Requests <- MCRequests
  Who <- MCWho
  Configs <- MCConfigs
  Rows = 3
  FailClosed = TRUE
  MaxDetailed = 1
  MaxBoots = 2
  Slow = TRUE
CHECK_DEADLOCK FALSE
INVARIANTS AskedWithinPolicy EveryCallLeavesItsLines RecordNamesWhatWasRead StatementsCapped
PROPERTIES RowsWithinProfile CallsEnd KeepsPromise

