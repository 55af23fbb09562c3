SPECIFICATION CommSpec
CONSTANTS
  NumComms = 4
  NumParts = 3
INVARIANTS
  DoneMeansDrained
  TornOnlyIfReported
PROPERTIES
  CommsAreSerial
  CommsEnd
CHECK_DEADLOCK FALSE
