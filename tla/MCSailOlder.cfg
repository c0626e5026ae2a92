SPECIFICATION Spec
CONSTANTS
  Programs <- MCPrograms
  Listed <- MCListed
  Symbols <- OlderSymbols
  Table <- OlderTable
  Meaning <- MCMeaning
  Imports <- OlderImports
  Wanted <- OlderWanted
  Threads = {t1, t2}
  Loader = t1
  Garbage = {0, 77}
  NoName = NoName
INVARIANT AnswersAreRight
CHECK_DEADLOCK FALSE
