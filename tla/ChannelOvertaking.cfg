SPECIFICATION ClientSpec
CONSTANTS
  Keys = {"A", "B"}
  Menu <- PutsAhead
  Sizes = {1}
  NumCalls = 5
INVARIANTS
  OrderKept
CHECK_DEADLOCK FALSE
