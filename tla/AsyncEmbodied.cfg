SPECIFICATION AsyncSpec
CONSTANTS
  stage_num = 2
  n_chunk_steps = 2
  max_steps = 2
  NumEpochs = 2
  actor_num = 2
  replay_buffer_capacity = 3
  part_size = 2
  min_buffer_size = 2
  train_actor_steps = 4
  critic_actor_ratio = 2
  update_epoch = 2
INVARIANTS
  AsyncMessagesFit
  RowsPaired
  ReplayHoldsNewest
PROPERTIES
  UpdatesEnd
  ShutdownEnds
CHECK_DEADLOCK FALSE
