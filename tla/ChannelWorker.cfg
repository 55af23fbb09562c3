SPECIFICATION Spec
CONSTANTS
  a = a
  b = b
  Keys = {a, b}
  MaxSize = 1
  Requests <- MCRequests
  NumCalls = 5
INVARIANTS
  NoCoroutineLost
  ItemsAccounted
  NoStrandedPutter
  StrandedOnlyByShortBatch
PROPERTIES
  RefinesFifo
  SlotsFilled
CHECK_DEADLOCK FALSE
