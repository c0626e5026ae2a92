SPECIFICATION ScopedSpec
CONSTANTS
  t1 = t1
  t2 = t2
  t3 = t3
  Nobody = Nobody
  Threads <- MCThreads
  OtherWords <- MCOtherWords
INVARIANT OneHolder
CHECK_DEADLOCK FALSE
