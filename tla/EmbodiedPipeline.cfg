SPECIFICATION PipelineSpec
CONSTANTS
  env_num = 1
  gather_num = 2
  actor_num = 2
  num_envs = 4
  group_size = 2
  num_action_chunks = 2
  stage_num = 2
  rollout_epoch = 2
  n_chunk_steps = 2
  eval_rollout_epoch = 2
  n_eval_chunk_steps = 2
  max_steps = 3
  val_check_interval = 2
  save_interval = 2
  nft = TRUE
  NumCrashes = 1
INVARIANTS
  MessagesFit
  SamplesFit
  GroupsWhole
  BatchComplete
  CheckpointsFit
PROPERTY TrainingEnds
CHECK_DEADLOCK FALSE
