SPECIFICATION PipelineSpec
CONSTANTS
  env_num = 1
  gather_num = 1
  actor_num = 2
  num_envs = 2
  group_size = 1
  num_action_chunks = 1
  stage_num = 1
  rollout_epoch = 1
  n_chunk_steps = 1
  eval_rollout_epoch = 1
  n_eval_chunk_steps = 1
  max_steps = 2
  val_check_interval = 0
  save_interval = 1
  nft = TRUE
  NumCrashes = 1
INVARIANT ResumesTraining
CHECK_DEADLOCK FALSE
