SPECIFICATION SuitedSpec
CONSTANTS
  Quarter = 4
  PageBits = 5
  AdrBits = 7
  BranchBits = 8
  CondBits = 6
  TestBits = 5
  Registers = {"x0", "x1", "ip0"}
  IP0 = "ip0"
  N = 5
  Capacity = 25
  Places <- MCPlaces
  Originals <- MCOriginals
  Valuations <- MCValuations
INVARIANTS
  TypeOK
  LiteralsSurvive
  BranchReachesHook
  BackupRunsOriginal
CHECK_DEADLOCK FALSE
