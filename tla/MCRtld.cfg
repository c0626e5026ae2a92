SPECIFICATION Spec
CONSTANTS
  Names <- MCNames
  HashOf <- MCHashOf
  WordBits = 4
  MaskWords = 2
  Shift = 4
  Images <- MCImages
  Slots = {1, 2}
  Span = 10
CHECK_DEADLOCK FALSE
INVARIANTS
  LookupIsRight
  LinkedBeforeInit
  InitOrder
PROPERTY
  Ends
