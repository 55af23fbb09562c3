SPECIFICATION FairDynSpec
CONSTANTS
  rollout_batch_size = 6
  group_size = 1
  actor_world_size = 1
  rollout_world_size = 2
  inference_world_size = 1
  actor_mp = 1
  rollout_mp = 1
  inference_mp = 1
  n_minibatches = 3
  max_running_requests = 3
  Policies <- TestPolicies
INVARIANTS
  GroupsInOnePlace
  GpusExclusive
  LedgerBalanced
  FailsOnlyWhenFull
  NothingLeftBehind
PROPERTY ScheduleEnds
CHECK_DEADLOCK FALSE
