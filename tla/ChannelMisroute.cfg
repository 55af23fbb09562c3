SPECIFICATION ClientSpec
CONSTANTS
  Keys = {"A", "B"}
  Menu <- ProducerConsumer
  Sizes = {0}
  NumCalls = 3
INVARIANTS
  GetsOwnKey
CHECK_DEADLOCK FALSE
