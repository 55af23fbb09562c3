SPECIFICATION AsyncSpec
CONSTANTS
  stage_num = 1
  n_chunk_steps = 2
  max_steps = 1
  NumEpochs = 2
  actor_num = 1
  replay_buffer_capacity = 3
  part_size = 1
  min_buffer_size = 1
  train_actor_steps = 1
  critic_actor_ratio = 1
  update_epoch = 1
INVARIANT DonesPaired
CHECK_DEADLOCK FALSE
