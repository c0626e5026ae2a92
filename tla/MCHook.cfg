SPECIFICATION DisciplinedSpec
CONSTANTS
  Hooks <- MCHooks
  Kind <- MCKind
  NumInstrs <- MCNumInstrs
  N = 2
  Base = 2
  TextSize = 4
  RodataSize = 1
  DataSize = 2
  ZeroWords = {3}
  Literals = {0}
INVARIANTS
  TypeOK
  InstalledIffLive
  RestoreExact
  InEffect
  OrigRunsWhatWasThere
CHECK_DEADLOCK FALSE
