SPECIFICATION FairSpec
CONSTANT Threads = {t1, t2, t3}
INVARIANTS
  TypeOK
  MutualExclusion
  TakenIffHeld
PROPERTIES
  EventuallyFree
  SomebodyGetsIt
CHECK_DEADLOCK FALSE
