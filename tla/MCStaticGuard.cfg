SPECIFICATION GuardSpec
CONSTANTS
  t1 = t1
  t2 = t2
  Nobody = Nobody
  Threads <- MCThreads
  OtherWords = {}
INVARIANT OnlyUninitialized
