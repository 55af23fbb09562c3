SPECIFICATION LockSpec
CONSTANTS
  rollout = rollout
  actor = actor
  reward = reward
  Workers = {rollout, actor, reward}
  Devices = {1, 2}
  accel_ids <- MCaccel_ids
  NoWorker = NoWorker
  NumRounds = 2
INVARIANTS
  DevicesExclusive
  NoErrorRaised
  WakeupPending
PROPERTIES
  TakesTurns
  Served
CHECK_DEADLOCK FALSE
