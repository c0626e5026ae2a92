SPECIFICATION FairSpec
CONSTANTS
  t1 = t1
  t2 = t2
  t3 = t3
  Nobody = Nobody
  Threads <- MCThreads
  OtherWords <- MCOtherWords
INVARIANTS
  TypeOK
  ExclusiveUntilOverwritten
  SleepersAreExpected
PROPERTY WaitersAreServed
CHECK_DEADLOCK FALSE
