SPECIFICATION CarefulSpec
CONSTANTS
  Keys = {"A", "B"}
  Menu <- ProducerConsumer
  Sizes = {0, 1}
  NumCalls = 4
INVARIANTS
  GetsOwnKey
  ItemsInOnePlace
  OrderKept
PROPERTIES
  CallsEnd
CHECK_DEADLOCK FALSE
