SPECIFICATION SomeSpec
CONSTANTS
  None = None  Missing = Missing
  Entries <- OneOfEach  Meta <- ModelOnly  Keys <- TwoKeys  Service <- Countersigner
  Spoilt <- SpoiltBodies  Scope = {"orders", "people", "wages"}
  MaxStamps = 2  MaxFaults = 1
  Absent = Absent  Pattern <- Statements  ClockOffsets <- Ahead  Skews <- SkewsDeclared
  Profiles <- Mappings  End = 3  MaxRun = 2
  Untouched <- UntouchedTexts  Hidden <- HiddenTexts  Marked <- MarkedNames  Rules <- PatternLists  CoreTokens <- CoreFinds
  MaxFound = 3  MaxMatches = 2  ScanCap = 9  MaxSegments = 3
  Originals <- Files  Patches <- Edits  MaxSaves = 2
  Calendars = {1, 2}  Stampers = {"stamp"}  MaxRevisions = 2  MaxBegun = 2  MaxUpgrades = 2  MaxHeight = 1
  gold = gold  steel = steel  brass = brass
CHECK_DEADLOCK FALSE
INVARIANTS AcceptedIsOurs HonestCopyVerifies VerifiersAgree CompleteMeansAll
  CleanMeansReceipted NoFalseAccusation
  MaskCovers MaskedStaysHidden ProtectedNotProbed PatternsMeanTheSame ServesWholeConfig
  StampsAreTrue RevisionsInOrder
