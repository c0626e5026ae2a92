SPECIFICATION FairSpec
CONSTANTS
  Programs <- MCPrograms
  Listed <- MCListed
  Symbols <- MCSymbols
  Table <- MCTable
  Meaning <- MCMeaning
  Imports <- MCImports
  Wanted <- MCWanted
  Threads = {t1, t2}
  Loader = t1
  Garbage = {0, 77}
  NoName = NoName
INVARIANTS TypeOK AnswersAreRight CacheIsRight HaltIsJustified
PROPERTY EveryLookupEnds
CHECK_DEADLOCK FALSE
