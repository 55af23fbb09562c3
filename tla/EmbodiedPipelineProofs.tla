------------------------ MODULE EmbodiedPipelineProofs ------------------------
(***************************************************************************)
(* Proofs about EmbodiedPipeline, for any numbers of ranks, stages, steps  *)
(* and epochs: checkpoints are what they are called and load what was      *)
(* saved, messages are taken for what they are, and the samples of a       *)
(* training step are right, whole and all of them.                         *)
(***************************************************************************)
EXTENDS EmbodiedPipeline, TLAPS, FiniteSetTheorems, WellFoundedInduction, SequenceTheorems

Weights == [steps : Nat, life : Nat]
Actors  == [model : [ActorRanks -> Weights], ref : Weights]
Files   == [is : {"missing", "torn", "whole"}, has : Weights]
Dirs    == [shards : [ActorRanks -> Files], metadata : BOOLEAN, ref : Files]

CheckpointTypes ==
  /\ global_step \in Nat
  /\ crashes \in Nat
  /\ cut_used \in BOOLEAN
  /\ version \in Actors
  /\ \A n \in DOMAIN saved : n \in Nat /\ saved[n] \in Dirs

(* Every rank, and with nft the reference model, is of the same training. *)
OneTraining(actor) ==
  /\ \A a \in ActorRanks : actor.model[a] = actor.model[0]
  /\ nft => actor.ref = actor.model[0]

(* The shards of the actor, and those in a directory, are after n steps. *)
ShardsFit(actor, n) == \A a \in ActorRanks : actor.model[a].steps = n
FilesFit(dir, n) ==
  \A a \in ActorRanks : dir.shards[a].is = "whole" => dir.shards[a].has.steps = n

(* What is in the directory of a save that is under way. *)
Written ==
  /\ pc \in {"shards", "ref"} => global_step \in DOMAIN saved /\ global_step \notin DOMAIN kept
  /\ pc = "shards" => \A a \in ActorRanks : a \in unwritten \/ saved[global_step].shards[a] = File(version.model[a])
  /\ pc = "ref" => /\ nft /\ saved[global_step].metadata
                   /\ \A a \in ActorRanks : saved[global_step].shards[a] = File(version.model[a])

CheckpointInv ==
  /\ CheckpointTypes
  /\ ShardsFit(version, global_step)
  /\ \A n \in DOMAIN saved : FilesFit(saved[n], n)
  /\ Written
  /\ \A n \in DOMAIN kept : n \in DOMAIN saved /\ Loadable(saved[n]) /\ load_checkpoint(saved[n]) = kept[n]
  /\ nft \/ version.ref = Pretrained
  /\ cut_used \/ OneTraining(version)
  /\ cut_used \/ \A n \in DOMAIN kept : OneTraining(kept[n])

(* What is known of a directory whose save has come to its end: it loads as *)
(* what the actor has.                                                      *)
LEMMA SavedLoads ==
  ASSUME NEW dir \in Dirs, version \in Actors,
         dir.metadata, \A a \in ActorRanks : dir.shards[a] = File(version.model[a]),
         nft => dir.ref = File(version.ref),
         nft \/ version.ref = Pretrained
  PROVE  Loadable(dir) /\ load_checkpoint(dir) = version
<1>1. \A a \in ActorRanks : dir.shards[a].is = "whole" /\ dir.shards[a].has = version.model[a]
  <2>1. \A w : File(w).is = "whole" /\ File(w).has = w
    BY DEF File
  <2>2. QED
    BY <2>1
<1>2. nft => dir.ref.is = "whole" /\ dir.ref.has = version.ref
  BY DEF File
<1>3. [a \in ActorRanks |-> dir.shards[a].has] = version.model
  BY <1>1 DEF Actors
<1>4. (IF nft /\ dir.ref.is = "whole" THEN dir.ref.has ELSE Pretrained) = version.ref
  BY <1>2
<1>5. load_checkpoint(dir) = [model |-> version.model, ref |-> version.ref]
  BY <1>3, <1>4 DEF load_checkpoint
<1>6. QED
  BY <1>1, <1>2, <1>5 DEF Loadable, Actors

(* The values the model is built from have their types. *)
LEMMA ActorTypes ==
  /\ Pretrained \in Weights /\ InitialActor \in Actors
  /\ Missing \in Files /\ Torn \in Files /\ \A w \in Weights : File(w) \in Files
  /\ EmptyDir \in Dirs
  /\ \A actor \in Actors, life \in Nat : run_training(actor, life) \in Actors
  /\ \A dir \in Dirs : load_checkpoint(dir) \in Actors
<1>1. /\ Pretrained \in Weights
      /\ \A w \in Weights, life \in Nat : Trained(w, life) \in Weights
  BY DEF Pretrained, Trained, Weights
<1>2. InitialActor \in Actors
  BY <1>1 DEF InitialActor, Actors
<1>3. Missing \in Files /\ Torn \in Files /\ \A w \in Weights : File(w) \in Files
  BY <1>1 DEF Missing, Torn, File, Files
<1>4. EmptyDir \in Dirs
  BY <1>3 DEF EmptyDir, Dirs
<1>5. ASSUME NEW actor \in Actors, NEW life \in Nat
      PROVE  run_training(actor, life) \in Actors
  <2>1. actor.model \in [ActorRanks -> Weights] /\ actor.ref \in Weights
    BY DEF Actors
  <2>2. [a \in ActorRanks |-> Trained(actor.model[a], life)] \in [ActorRanks -> Weights]
    BY <2>1, <1>1
  <2>3. (IF nft THEN Trained(actor.ref, life) ELSE actor.ref) \in Weights
    BY <2>1, <1>1
  <2>4. QED
    BY <2>2, <2>3 DEF run_training, Actors
<1>6. ASSUME NEW dir \in Dirs
      PROVE  load_checkpoint(dir) \in Actors
  <2>1. dir.shards \in [ActorRanks -> Files] /\ dir.ref \in Files
    BY DEF Dirs
  <2>2. [a \in ActorRanks |-> dir.shards[a].has] \in [ActorRanks -> Weights]
    BY <2>1 DEF Files
  <2>3. (IF nft /\ dir.ref.is = "whole" THEN dir.ref.has ELSE Pretrained) \in Weights
    BY <2>1, <1>1 DEF Files
  <2>4. QED
    BY <2>2, <2>3 DEF load_checkpoint, Actors
<1>7. QED
  BY <1>1, <1>2, <1>3, <1>4, <1>5, <1>6

LEMMA CheckpointsBegin == PipelineInit => CheckpointInv
<1> SUFFICES ASSUME PipelineInit
             PROVE  CheckpointInv
  OBVIOUS
<1> USE DEF PipelineInit
<1>1. DOMAIN saved = {} /\ DOMAIN kept = {}
  OBVIOUS
<1>2. \A a \in ActorRanks : version.model[a] = Pretrained
  BY DEF InitialActor
<1>3. version.ref = Pretrained /\ version.model[0] = Pretrained
  BY CheckpointAssumption DEF InitialActor, ActorRanks
<1>4. CheckpointTypes
  BY <1>1, ActorTypes DEF CheckpointTypes
<1>5. ShardsFit(version, global_step)
  BY <1>1, <1>2 DEF ShardsFit, Pretrained
<1>6. QED
  BY <1>1, <1>2, <1>3, <1>4, <1>5 DEF CheckpointInv, Written, OneTraining

(* Steps that neither train, write, save nor restart leave the checkpoints  *)
(* and the actor alone.                                                     *)
LEMMA OthersKeepCheckpoints ==
  ASSUME PipelineNext, ~Train, ~Save, ~\E a \in ActorRanks : WriteShard(a),
         ~WriteMetadata, ~WriteRef, ~Restart
  PROVE  /\ UNCHANGED <<global_step, version, checkpoints, crashes>>
         /\ pc' = pc \/ pc' \notin {"shards", "ref"}
<1>1. ASSUME NEW e \in EnvRanks, NEW m \in Modes, SendInitial(e, m) \/ Interact(e, m)
      PROVE  UNCHANGED runner
  BY <1>1 DEF SendInitial, Interact
<1>2. ASSUME NEW r \in RolloutRanks, Generate(r) \/ GenerateLast(r) \/ Evaluate(r) \/ SendRolloutBatch(r)
      PROVE  UNCHANGED runner
  BY <1>2 DEF Generate, GenerateLast, Evaluate, SendRolloutBatch
<1>3. ASSUME NEW r \in RolloutRanks, sync_model_from_actor(r)
      PROVE  UNCHANGED <<pc, global_step, version, checkpoints, crashes>>
  BY <1>3 DEF sync_model_from_actor
<1>4. ASSUME NEW a \in ActorRanks, recv_rollout_batch(a)
      PROVE  UNCHANGED runner
  BY <1>4 DEF recv_rollout_batch
<1>5. ASSUME StartGenerate \/ GenerateEnds \/ StartEvaluate \/ EvaluateEnds \/ EndStep
      PROVE  /\ UNCHANGED <<global_step, version, checkpoints, crashes>>
             /\ pc' \notin {"shards", "ref"}
  BY <1>5 DEF StartGenerate, GenerateEnds, StartEvaluate, EvaluateEnds, EndStep, CallAll
<1>6. QED
  BY <1>1, <1>2, <1>3, <1>4, <1>5 DEF PipelineNext, Env, Rollout, Actor, Runner, runner

LEMMA TrainKeepsCheckpoints == CheckpointInv /\ Train => CheckpointInv'
<1> SUFFICES ASSUME CheckpointInv, Train
             PROVE  CheckpointInv'
  OBVIOUS
<1>1. /\ UNCHANGED <<saved, kept, cut_used, crashes>>
      /\ version' = run_training(version, crashes) /\ global_step' = global_step + 1
      /\ pc' \notin {"shards", "ref"}
  BY DEF Train, checkpoints
<1>2. CheckpointTypes'
  BY <1>1, ActorTypes DEF CheckpointInv, CheckpointTypes
<1>3. \A a \in ActorRanks : version'.model[a] = Trained(version.model[a], crashes)
  BY <1>1 DEF run_training
<1>4. /\ nft => version'.ref = Trained(version.ref, crashes)
      /\ ~nft => version'.ref = version.ref
  BY <1>1 DEF run_training
<1>5. ShardsFit(version', global_step')
  <2>1. \A a \in ActorRanks : Trained(version.model[a], crashes).steps = global_step + 1
    BY DEF ShardsFit, CheckpointInv, Trained
  <2>2. QED
    BY <1>1, <1>3, <2>1 DEF ShardsFit
<1>6. 0 \in ActorRanks
  BY CheckpointAssumption DEF ActorRanks
<1>7. OneTraining(version) => OneTraining(version')
  BY <1>3, <1>4, <1>6 DEF OneTraining
<1>8. QED
  BY <1>1, <1>2, <1>4, <1>5, <1>7 DEF CheckpointInv, Written

LEMMA SaveKeepsCheckpoints == CheckpointInv /\ Save => CheckpointInv'
<1> SUFFICES ASSUME CheckpointInv, Save
             PROVE  CheckpointInv'
  OBVIOUS
<1>1. UNCHANGED <<global_step, version, cut_used, crashes>>
  BY DEF Save
<1>2. CASE UNCHANGED <<saved, kept>> /\ pc' = "join"
  BY <1>1, <1>2 DEF CheckpointInv, CheckpointTypes, Written
<1>3. CASE /\ saved' = makedirs(saved, global_step) /\ pc' = "shards"
           /\ unwritten' = ActorRanks /\ kept' = Undone(kept, global_step)
  <2>1. DOMAIN saved' = DOMAIN saved \cup {global_step}
    BY <1>3 DEF makedirs, Put
  <2>2. \A n \in DOMAIN saved' : saved'[n] = EmptyDir \/ (n \in DOMAIN saved /\ saved'[n] = saved[n])
    BY <1>3 DEF makedirs, Put
  <2>3. \A n \in DOMAIN saved : saved'[n] = saved[n]
    BY <1>3 DEF makedirs, Put
  <2>4. /\ DOMAIN kept' = DOMAIN kept \ {global_step}
        /\ \A n \in DOMAIN kept' : kept'[n] = kept[n]
    BY <1>3 DEF Undone
  <2>5. CheckpointTypes'
    BY <1>1, <2>1, <2>2, ActorTypes DEF CheckpointInv, CheckpointTypes
  <2>6. \A a \in ActorRanks : EmptyDir.shards[a].is # "whole"
    BY DEF EmptyDir, Missing
  <2>7. \A n \in DOMAIN saved' : FilesFit(saved'[n], n)
    BY <2>2, <2>6 DEF CheckpointInv, FilesFit
  <2>8. Written'
    BY <1>1, <1>3, <2>1, <2>4 DEF Written
  <2>9. QED
    BY <1>1, <2>1, <2>3, <2>4, <2>5, <2>7, <2>8 DEF CheckpointInv
<1>4. QED
  BY <1>2, <1>3 DEF Save

(* A write into the directory of the save under way changes no other, and   *)
(* the actor's own no other rank's file.                                    *)
LEMMA ShardKeepsCheckpoints ==
  ASSUME NEW a \in ActorRanks
  PROVE  CheckpointInv /\ WriteShard(a) => CheckpointInv'
<1> SUFFICES ASSUME CheckpointInv, WriteShard(a)
             PROVE  CheckpointInv'
  OBVIOUS
<1> DEFINE n == global_step
           file == Write(saved[n].shards[a], version.model[a])
<1>1. /\ UNCHANGED <<pc, global_step, version, kept, cut_used, crashes>>
      /\ pc = "shards" /\ a \in unwritten
      /\ unwritten' = IF saved[n].shards[a] = Torn THEN unwritten \ {a} ELSE unwritten
  BY DEF WriteShard
<1>2. n \in DOMAIN saved /\ n \in Nat /\ n \notin DOMAIN kept /\ saved[n] \in Dirs /\ version \in Actors
  BY <1>1 DEF CheckpointInv, CheckpointTypes, Written
<1>3. version.model[a] \in Weights /\ version.model[a].steps = n
  BY <1>2 DEF CheckpointInv, ShardsFit, Actors
<1>4. file \in Files /\ (file = Torn \/ file = File(version.model[a]))
  BY <1>3, ActorTypes DEF Write
<1>5. /\ DOMAIN saved' = DOMAIN saved
      /\ \A m \in DOMAIN saved : m # n => saved'[m] = saved[m]
      /\ saved'[n] = [saved[n] EXCEPT !.shards = [@ EXCEPT ![a] = file]]
  BY <1>2 DEF WriteShard
<1>6. /\ saved'[n] \in Dirs
      /\ saved'[n].shards[a] = file
      /\ \A b \in ActorRanks : b # a => saved'[n].shards[b] = saved[n].shards[b]
  <2> HIDE DEF file, n
  <2>1. saved[n].shards \in [ActorRanks -> Files]
    BY <1>2 DEF Dirs
  <2>2. saved'[n].shards = [saved[n].shards EXCEPT ![a] = file]
    BY <1>5, <1>2 DEF Dirs
  <2>3. saved'[n] \in Dirs
    BY <1>5, <1>2, <1>4, <2>1 DEF Dirs
  <2>4. QED
    BY <2>1, <2>2, <2>3
<1>7. CheckpointTypes'
  BY <1>1, <1>2, <1>5, <1>6 DEF CheckpointInv, CheckpointTypes
<1>8. \A m \in DOMAIN saved' : FilesFit(saved'[m], m)
  <2>1. file.is = "whole" => file.has.steps = n
    BY <1>3, <1>4 DEF Torn, File
  <2>2. FilesFit(saved'[n], n)
    <3>1. FilesFit(saved[n], n)
      BY <1>2 DEF CheckpointInv
    <3> HIDE DEF file, n
    <3>2. QED
      BY <2>1, <1>6, <3>1 DEF FilesFit
  <2>3. \A m \in DOMAIN saved : m # n => FilesFit(saved'[m], m)
    BY <1>5 DEF CheckpointInv
  <2>4. QED
    BY <1>5, <2>2, <2>3
<1>9. Written'
  <2>1. saved[n].shards[a] = Torn => file = File(version.model[a])
    BY DEF Write
  <2>2. \A b \in ActorRanks : b \in unwritten' \/ saved'[n].shards[b] = File(version.model[b])
    BY <1>1, <1>6, <2>1 DEF CheckpointInv, Written
  <2>3. QED
    BY <1>1, <1>2, <1>5, <2>2 DEF Written
<1>10. QED
  BY <1>1, <1>2, <1>5, <1>7, <1>8, <1>9 DEF CheckpointInv

(* When a save ends, its directory loads as what was saved.                 *)
LEMMA EndKeepsCheckpoints ==
  ASSUME CheckpointInv, SaveEnds, UNCHANGED <<global_step, version, cut_used, crashes>>,
         global_step \in DOMAIN saved, DOMAIN saved' = DOMAIN saved,
         \A m \in DOMAIN saved : m # global_step => saved'[m] = saved[m],
         saved'[global_step] \in Dirs, saved'[global_step].metadata,
         \A a \in ActorRanks : saved'[global_step].shards[a] = File(version.model[a]),
         nft => saved'[global_step].ref = File(version.ref)
  PROVE  CheckpointInv'
<1>1. /\ pc' = "join" /\ DOMAIN kept' = DOMAIN kept \cup {global_step}
      /\ kept'[global_step] = version
      /\ \A m \in DOMAIN kept : m # global_step => kept'[m] = kept[m]
  BY DEF SaveEnds, Put
<1>2. CheckpointTypes'
  BY DEF CheckpointInv, CheckpointTypes
<1>3. \A n \in DOMAIN saved' : FilesFit(saved'[n], n)
  <2>1. \A w : File(w).has = w
    BY DEF File
  <2>2. FilesFit(saved'[global_step], global_step)
    BY <2>1 DEF FilesFit, ShardsFit, CheckpointInv
  <2>3. QED
    BY <2>2 DEF CheckpointInv
<1>4. Loadable(saved'[global_step]) /\ load_checkpoint(saved'[global_step]) = version
  BY SavedLoads DEF CheckpointInv, CheckpointTypes
<1>5. \A n \in DOMAIN kept' : /\ n \in DOMAIN saved'
                             /\ Loadable(saved'[n])
                             /\ load_checkpoint(saved'[n]) = kept'[n]
  BY <1>1, <1>4 DEF CheckpointInv
<1>6. cut_used \/ \A n \in DOMAIN kept' : OneTraining(kept'[n])
  BY <1>1 DEF CheckpointInv
<1>7. QED
  BY <1>1, <1>2, <1>3, <1>5, <1>6 DEF CheckpointInv, Written

LEMMA MetadataKeepsCheckpoints == CheckpointInv /\ WriteMetadata => CheckpointInv'
<1> SUFFICES ASSUME CheckpointInv, WriteMetadata
             PROVE  CheckpointInv'
  OBVIOUS
<1> DEFINE n == global_step
<1>1. /\ UNCHANGED <<global_step, version, unwritten, cut_used, crashes>>
      /\ pc = "shards" /\ unwritten = {}
  BY DEF WriteMetadata
<1>2. n \in DOMAIN saved /\ n \in Nat /\ n \notin DOMAIN kept /\ saved[n] \in Dirs
  BY <1>1 DEF CheckpointInv, CheckpointTypes, Written
<1>3. /\ DOMAIN saved' = DOMAIN saved
      /\ \A m \in DOMAIN saved : m # n => saved'[m] = saved[m]
      /\ saved'[n] = [saved[n] EXCEPT !.metadata = TRUE]
  BY <1>2 DEF WriteMetadata
<1>4. /\ saved'[n] \in Dirs /\ saved'[n].metadata
      /\ saved'[n].shards = saved[n].shards
  BY <1>2, <1>3 DEF Dirs
<1>5. \A a \in ActorRanks : saved'[n].shards[a] = File(version.model[a])
  BY <1>1, <1>4 DEF CheckpointInv, Written
<1>6. CASE nft /\ pc' = "ref" /\ UNCHANGED kept
  <2>1. CheckpointTypes'
    BY <1>1, <1>2, <1>3, <1>4 DEF CheckpointInv, CheckpointTypes
  <2>2. \A m \in DOMAIN saved' : FilesFit(saved'[m], m)
    <3>1. FilesFit(saved[n], n)
      BY <1>2 DEF CheckpointInv
    <3>2. FilesFit(saved'[n], n)
      BY <3>1, <1>4 DEF FilesFit
    <3>3. \A m \in DOMAIN saved : m # n => FilesFit(saved'[m], m)
      BY <1>3 DEF CheckpointInv
    <3>4. QED
      BY <1>3, <3>2, <3>3
  <2>3. Written'
    BY <1>1, <1>2, <1>3, <1>4, <1>5, <1>6 DEF Written
  <2>4. \A m \in DOMAIN kept : saved'[m] = saved[m] /\ m \in DOMAIN saved'
    BY <1>2, <1>3 DEF CheckpointInv
  <2>5. QED
    BY <1>1, <1>6, <2>1, <2>2, <2>3, <2>4 DEF CheckpointInv
<1>7. CASE ~nft /\ SaveEnds
  BY <1>1, <1>2, <1>3, <1>4, <1>5, <1>7, EndKeepsCheckpoints
<1>8. QED
  BY <1>6, <1>7 DEF WriteMetadata

LEMMA RefKeepsCheckpoints == CheckpointInv /\ WriteRef => CheckpointInv'
<1> SUFFICES ASSUME CheckpointInv, WriteRef
             PROVE  CheckpointInv'
  OBVIOUS
<1> DEFINE n == global_step
           file == Write(saved[n].ref, version.ref)
<1>1. UNCHANGED <<global_step, version, unwritten, cut_used, crashes>> /\ pc = "ref"
  BY DEF WriteRef
<1>2. n \in DOMAIN saved /\ n \in Nat /\ n \notin DOMAIN kept /\ saved[n] \in Dirs /\ version.ref \in Weights
  BY <1>1 DEF CheckpointInv, CheckpointTypes, Written, Actors
<1>3. file \in Files /\ (saved[n].ref = Torn => file = File(version.ref))
  BY <1>2, ActorTypes DEF Write
<1>4. /\ DOMAIN saved' = DOMAIN saved
      /\ \A m \in DOMAIN saved : m # n => saved'[m] = saved[m]
      /\ saved'[n] = [saved[n] EXCEPT !.ref = file]
  BY <1>2 DEF WriteRef
<1>5. /\ saved'[n] \in Dirs /\ saved'[n].metadata = saved[n].metadata
      /\ saved'[n].shards = saved[n].shards /\ saved'[n].ref = file
  <2> HIDE DEF file, n
  <2>1. QED
    BY <1>2, <1>3, <1>4 DEF Dirs
<1>6. /\ nft /\ saved'[n].metadata
      /\ \A a \in ActorRanks : saved'[n].shards[a] = File(version.model[a])
  BY <1>1, <1>5 DEF CheckpointInv, Written
<1>7. CASE UNCHANGED <<pc, kept>>
  <2> HIDE DEF file
  <2>1. CheckpointTypes'
    BY <1>1, <1>2, <1>4, <1>5 DEF CheckpointInv, CheckpointTypes
  <2>2. \A m \in DOMAIN saved' : FilesFit(saved'[m], m)
    <3>1. FilesFit(saved[n], n)
      BY <1>2 DEF CheckpointInv
    <3>2. FilesFit(saved'[n], n)
      BY <3>1, <1>5 DEF FilesFit
    <3>3. \A m \in DOMAIN saved : m # n => FilesFit(saved'[m], m)
      BY <1>4 DEF CheckpointInv
    <3>4. QED
      BY <1>4, <3>2, <3>3
  <2>3. Written'
    BY <1>1, <1>2, <1>4, <1>5, <1>6, <1>7 DEF Written
  <2>4. \A m \in DOMAIN kept : saved'[m] = saved[m] /\ m \in DOMAIN saved'
    BY <1>2, <1>4 DEF CheckpointInv
  <2>5. QED
    BY <1>1, <1>7, <2>1, <2>2, <2>3, <2>4 DEF CheckpointInv
<1>8. CASE saved[n].ref = Torn /\ SaveEnds
  <2>1. saved'[n].ref = File(version.ref)
    BY <1>3, <1>5, <1>8
  <2>2. QED
    BY <1>1, <1>2, <1>4, <1>5, <1>6, <1>8, <2>1, EndKeepsCheckpoints
<1>9. QED
  BY <1>7, <1>8 DEF WriteRef

LEMMA RestartKeepsCheckpoints == CheckpointInv /\ Restart => CheckpointInv'
<1> SUFFICES ASSUME CheckpointInv, Restart
             PROVE  CheckpointInv'
  OBVIOUS
<1>1. /\ UNCHANGED <<saved, kept>> /\ crashes' = crashes + 1
      /\ pc' \in {"sync", "done"}
      /\ (\E n \in DOMAIN saved : StartFrom(n)) \/ StartAnew
  BY DEF Restart
<1>2. 0 \in ActorRanks
  BY CheckpointAssumption DEF ActorRanks
<1>3. CASE StartAnew
  <2>1. UNCHANGED cut_used /\ global_step' = 0 /\ version' = InitialActor
    BY <1>3 DEF StartAnew
  <2>2. \A a \in ActorRanks : version'.model[a] = Pretrained
    BY <2>1 DEF InitialActor
  <2>3. version'.ref = Pretrained
    BY <2>1 DEF InitialActor
  <2>4. CheckpointTypes'
    BY <1>1, <2>1, ActorTypes DEF CheckpointInv, CheckpointTypes
  <2>5. ShardsFit(version', global_step')
    BY <2>1, <2>2 DEF ShardsFit, Pretrained
  <2>6. OneTraining(version')
    BY <1>2, <2>2, <2>3 DEF OneTraining
  <2>7. QED
    BY <1>1, <2>1, <2>3, <2>4, <2>5, <2>6 DEF CheckpointInv, Written
<1>4. ASSUME NEW n \in DOMAIN saved, StartFrom(n)
      PROVE  CheckpointInv'
  <2>1. /\ Loadable(saved[n]) /\ global_step' = n /\ version' = load_checkpoint(saved[n])
        /\ cut_used' = (cut_used \/ n \notin DOMAIN kept)
    BY <1>4 DEF StartFrom
  <2>2. n \in Nat /\ saved[n] \in Dirs
    BY DEF CheckpointInv, CheckpointTypes
  <2>3. CheckpointTypes'
    BY <1>1, <2>1, <2>2, ActorTypes DEF CheckpointInv, CheckpointTypes
  <2>4. \A a \in ActorRanks : version'.model[a] = saved[n].shards[a].has
    BY <2>1 DEF load_checkpoint
  <2>5. ShardsFit(version', global_step')
    BY <2>1, <2>4 DEF CheckpointInv, ShardsFit, FilesFit, Loadable
  <2>6. nft \/ version'.ref = Pretrained
    BY <2>1 DEF load_checkpoint
  <2>7. cut_used' \/ (~cut_used /\ n \in DOMAIN kept)
    BY <2>1
  <2>8. cut_used' \/ OneTraining(version')
    BY <2>1, <2>7 DEF CheckpointInv
  <2>9. cut_used' \/ \A m \in DOMAIN kept' : OneTraining(kept'[m])
    BY <1>1, <2>7 DEF CheckpointInv
  <2>10. QED
    BY <1>1, <2>3, <2>5, <2>6, <2>8, <2>9 DEF CheckpointInv, Written
<1>5. QED
  BY <1>1, <1>3, <1>4

LEMMA CheckpointsStep == CheckpointInv /\ [PipelineNext]_pipelineVars => CheckpointInv'
<1> SUFFICES ASSUME CheckpointInv, [PipelineNext]_pipelineVars
             PROVE  CheckpointInv'
  OBVIOUS
<1>1. CASE /\ UNCHANGED <<global_step, version, checkpoints, crashes>>
           /\ pc' = pc \/ pc' \notin {"shards", "ref"}
  BY <1>1 DEF CheckpointInv, CheckpointTypes, Written, checkpoints
<1>2. CASE UNCHANGED pipelineVars
  BY <1>2, <1>1 DEF pipelineVars, runner
<1>3. CASE PipelineNext
  BY <1>3, <1>1, OthersKeepCheckpoints, TrainKeepsCheckpoints, SaveKeepsCheckpoints,
     ShardKeepsCheckpoints, MetadataKeepsCheckpoints, RefKeepsCheckpoints, RestartKeepsCheckpoints
<1>4. QED
  BY <1>2, <1>3

(* What is in a checkpoint are the weights of the step in its name, in      *)
(* every file that is whole, and the runner's step is that of all its       *)
(* shards; a checkpoint whose save has ended loads as what was saved,       *)
(* whatever a save that was cut off has left there; and until a restart     *)
(* takes one that was cut off, all ranks and the reference model are of the *)
(* same training.  The program may be killed anywhere, within a save too,   *)
(* and started again from whatever loads (EmbodiedRunner.run,               *)
(* _save_checkpoint, init_workers; EmbodiedFSDPActor.save_checkpoint,       *)
(* load_checkpoint).                                                        *)
THEOREM CheckpointsNamedRight == PipelineSpec => []CheckpointsFit
<1>1. CheckpointInv => StepsFit
  BY DEF CheckpointInv, ShardsFit, FilesFit, StepsFit
<1>2. CheckpointInv => LoadsAsSaved
  BY DEF CheckpointInv, LoadsAsSaved
<1>3. CheckpointInv => CheckpointsFit
  BY <1>1, <1>2 DEF CheckpointInv, CheckpointsFit, OneTraining
<1>4. QED
  BY <1>3, CheckpointsBegin, CheckpointsStep, PTL DEF PipelineSpec

-----------------------------------------------------------------------------
(* Positions in the loops. *)

Positions == [epoch : Nat, step : Nat, stage : Stages]

(* Those of a call of mode m, and the one it has come to when it has ended, *)
(* of loops whose steps begin at s.                                         *)
Place(m) == [epoch : 1 .. Epochs(m), step : Nat, stage : Stages]
End(m, s) == [epoch |-> Epochs(m) + 1, step |-> s, stage |-> 1]

Shown(at)     == [at EXCEPT !.step = @ - 1]
NextEpoch(at) == [epoch |-> at.epoch + 1, step |-> 0, stage |-> 1]

(* The steps of a rollout rank's call, and the last step whose observations *)
(* are told.                                                                *)
RolloutSteps(m) == IF m = "train" THEN n_chunk_steps + 1 ELSE n_eval_chunk_steps
LastTold(m)     == IF m = "train" THEN n_chunk_steps ELSE n_eval_chunk_steps - 1

(* What an environment rank at some position tells next, the observation    *)
(* whose action it waits for next, and the observation a rollout rank at    *)
(* some position answers next.                                              *)
ToTell(at, m)   == IF m = "eval" /\ at.step = Chunks(m) THEN NextEpoch(at) ELSE at
Awaited(at)     == IF at.step = 0 THEN [at EXCEPT !.stage = 1] ELSE Shown(at)
ToAnswer(at, m) == IF at.step <= Chunks(m) THEN Shown(at) ELSE NextEpoch(at)

(* The bounds of the loops. *)
LEMMA Loops ==
  ASSUME NEW m \in Modes
  PROVE  /\ Epochs(m) \in Nat \ {0} /\ Chunks(m) \in Nat \ {0} /\ LastTold(m) \in Nat
         /\ RolloutSteps(m) \in Nat \ {0} /\ RolloutSteps(m) = LastTold(m) + 1
         /\ m = "train" => LastTold(m) = Chunks(m)
         /\ m = "eval" => LastTold(m) = Chunks(m) - 1
         /\ stage_num \in Nat \ {0} /\ 1 \in Stages
  BY PipelineAssumption, StageAssumption DEF Modes, Epochs, Chunks, LastTold, RolloutSteps, Stages

(* The parts of a position of a call, and the positions next to it.        *)
LEMMA PlaceFields ==
  ASSUME NEW m \in Modes, NEW at \in Place(m)
  PROVE  /\ at \in Positions
         /\ at = [epoch |-> at.epoch, step |-> at.step, stage |-> at.stage]
         /\ at.epoch \in 1 .. Epochs(m) /\ at.epoch \in Nat /\ at.step \in Nat
         /\ at.stage \in Nat /\ at.stage >= 1 /\ at.stage <= stage_num
<1>1. Epochs(m) \in Nat \ {0} /\ stage_num \in Nat \ {0}
  BY Loops
<1> QED
  BY <1>1 DEF Place, Positions, Stages

LEMMA AfterEquals ==
  ASSUME NEW at \in Positions, NEW first \in Nat, NEW last \in Nat
  PROVE  After(at, first, last) =
           IF at.stage < stage_num
           THEN [epoch |-> at.epoch, step |-> at.step, stage |-> at.stage + 1]
           ELSE IF at.step < last THEN [epoch |-> at.epoch, step |-> at.step + 1, stage |-> 1]
           ELSE [epoch |-> at.epoch + 1, step |-> first, stage |-> 1]
<1>1. [at EXCEPT !.stage = @ + 1] =
        [epoch |-> at.epoch, step |-> at.step, stage |-> at.stage + 1]
  BY DEF Positions
<1> QED
  BY <1>1 DEF After

LEMMA ShownEquals ==
  ASSUME NEW at \in Positions
  PROVE  Shown(at) = [epoch |-> at.epoch, step |-> at.step - 1, stage |-> at.stage]
<1>1. at = [epoch |-> at.epoch, step |-> at.step, stage |-> at.stage]
  BY DEF Positions
<1> QED
  BY <1>1 DEF Shown, Positions

(* The loops of an environment rank stay among their positions or end. *)
LEMMA EnvLoops ==
  ASSUME NEW m \in Modes, NEW at \in Place(m), at.step <= Chunks(m)
  PROVE  LET next == After(at, 0, Chunks(m)) IN
         /\ next.epoch <= Epochs(m) => next \in Place(m) /\ next.step <= Chunks(m)
         /\ next.epoch > Epochs(m) => next = End(m, 0)
         /\ next.epoch \in Nat
<1> DEFINE next == After(at, 0, Chunks(m))
<1>1. Epochs(m) \in Nat \ {0} /\ Chunks(m) \in Nat \ {0} /\ stage_num \in Nat \ {0}
  BY Loops
<1>2. /\ at \in Positions /\ at.epoch \in 1 .. Epochs(m) /\ at.step \in Nat
      /\ at.stage \in Nat /\ at.stage >= 1 /\ at.stage <= stage_num
  BY PlaceFields
<1>3. next = IF at.stage < stage_num
             THEN [epoch |-> at.epoch, step |-> at.step, stage |-> at.stage + 1]
             ELSE IF at.step < Chunks(m) THEN [epoch |-> at.epoch, step |-> at.step + 1, stage |-> 1]
             ELSE [epoch |-> at.epoch + 1, step |-> 0, stage |-> 1]
  BY <1>1, <1>2, AfterEquals
<1> HIDE DEF next
<1>4. /\ next.epoch <= Epochs(m) => next \in Place(m) /\ next.step <= Chunks(m)
      /\ next.epoch > Epochs(m) => next = End(m, 0)
      /\ next.epoch \in Nat
  <2>1. CASE at.stage < stage_num
    BY <1>1, <1>2, <1>3, <2>1 DEF Place, End, Stages
  <2>2. CASE ~(at.stage < stage_num) /\ at.step < Chunks(m)
    BY <1>1, <1>2, <1>3, <2>2 DEF Place, End, Stages
  <2>3. CASE ~(at.stage < stage_num) /\ ~(at.step < Chunks(m))
    BY <1>1, <1>2, <1>3, <2>3 DEF Place, End, Stages
  <2> QED
    BY <2>1, <2>2, <2>3
<1> QED
  BY <1>4 DEF next

(* So do those of a rollout rank. *)
LEMMA RolloutLoopsOn ==
  ASSUME NEW m \in Modes, NEW at \in Place(m), at.step \in 1 .. RolloutSteps(m)
  PROVE  LET next == After(at, 1, RolloutSteps(m)) IN
         /\ next.epoch <= Epochs(m) => next \in Place(m) /\ next.step \in 1 .. RolloutSteps(m)
         /\ next.epoch > Epochs(m) => next = End(m, 1)
         /\ next.epoch \in Nat
<1> DEFINE next == After(at, 1, RolloutSteps(m))
<1>1. Epochs(m) \in Nat \ {0} /\ RolloutSteps(m) \in Nat \ {0} /\ stage_num \in Nat \ {0}
  BY Loops
<1>2. /\ at \in Positions /\ at.epoch \in 1 .. Epochs(m) /\ at.step \in Nat
      /\ at.stage \in Nat /\ at.stage >= 1 /\ at.stage <= stage_num
  BY PlaceFields
<1>3. next = IF at.stage < stage_num
             THEN [epoch |-> at.epoch, step |-> at.step, stage |-> at.stage + 1]
             ELSE IF at.step < RolloutSteps(m)
             THEN [epoch |-> at.epoch, step |-> at.step + 1, stage |-> 1]
             ELSE [epoch |-> at.epoch + 1, step |-> 1, stage |-> 1]
  BY <1>1, <1>2, AfterEquals
<1> HIDE DEF next
<1>4. /\ next.epoch <= Epochs(m) => next \in Place(m) /\ next.step \in 1 .. RolloutSteps(m)
      /\ next.epoch > Epochs(m) => next = End(m, 1)
      /\ next.epoch \in Nat
  <2>1. CASE at.stage < stage_num
    BY <1>1, <1>2, <1>3, <2>1 DEF Place, End, Stages
  <2>2. CASE ~(at.stage < stage_num) /\ at.step < RolloutSteps(m)
    BY <1>1, <1>2, <1>3, <2>2 DEF Place, End, Stages
  <2>3. CASE ~(at.stage < stage_num) /\ ~(at.step < RolloutSteps(m))
    BY <1>1, <1>2, <1>3, <2>3 DEF Place, End, Stages
  <2> QED
    BY <2>1, <2>2, <2>3
<1> QED
  BY <1>4 DEF next

(* An environment rank's step tells one observation, and takes the action   *)
(* of one, or none.                                                         *)
LEMMA EnvTurn ==
  ASSUME NEW m \in Modes, NEW at \in Place(m), at.step <= Chunks(m)
  PROVE  LET next == After(at, 0, Chunks(m)) IN
         /\ m = "eval" /\ at.step = Chunks(m) => ToTell(next, m) = ToTell(at, m)
         /\ ~(m = "eval" /\ at.step = Chunks(m)) =>
              ToTell(at, m) = at /\ ToTell(next, m) = After(at, 0, LastTold(m))
         /\ at.step = 0 => Awaited(next) = Awaited(at)
         /\ at.step # 0 => /\ Awaited(at) = Shown(at)
                           /\ Awaited(next) = After(Shown(at), 0, Chunks(m) - 1)
<1> DEFINE next == After(at, 0, Chunks(m))
<1>1. /\ Chunks(m) \in Nat \ {0} /\ stage_num \in Nat \ {0} /\ LastTold(m) \in Nat
      /\ m = "train" \/ m = "eval"
      /\ m = "train" => LastTold(m) = Chunks(m)
      /\ m = "eval" => LastTold(m) = Chunks(m) - 1
  BY Loops DEF Modes
<1>2. /\ at \in Positions /\ at = [epoch |-> at.epoch, step |-> at.step, stage |-> at.stage]
      /\ at.epoch \in Nat /\ at.step \in Nat
      /\ at.stage \in Nat /\ at.stage >= 1 /\ at.stage <= stage_num
  BY PlaceFields
<1>3. next = IF at.stage < stage_num
             THEN [epoch |-> at.epoch, step |-> at.step, stage |-> at.stage + 1]
             ELSE IF at.step < Chunks(m) THEN [epoch |-> at.epoch, step |-> at.step + 1, stage |-> 1]
             ELSE [epoch |-> at.epoch + 1, step |-> 0, stage |-> 1]
  BY <1>1, <1>2, AfterEquals
<1>4. After(at, 0, LastTold(m)) =
             IF at.stage < stage_num
             THEN [epoch |-> at.epoch, step |-> at.step, stage |-> at.stage + 1]
             ELSE IF at.step < LastTold(m) THEN [epoch |-> at.epoch, step |-> at.step + 1, stage |-> 1]
             ELSE [epoch |-> at.epoch + 1, step |-> 0, stage |-> 1]
  BY <1>1, <1>2, AfterEquals
<1>5. next \in Positions
  BY <1>1, <1>2, <1>3 DEF Positions, Stages
<1> HIDE DEF next
<1>6. m = "eval" /\ at.step = Chunks(m) => ToTell(next, m) = ToTell(at, m)
  BY <1>1, <1>2, <1>3 DEF ToTell, NextEpoch
<1>7. ~(m = "eval" /\ at.step = Chunks(m)) =>
         ToTell(at, m) = at /\ ToTell(next, m) = After(at, 0, LastTold(m))
  BY <1>1, <1>2, <1>3, <1>4 DEF ToTell, NextEpoch
<1>8. ASSUME at.step = 0 PROVE Awaited(next) = Awaited(at)
  <2>1. [at EXCEPT !.stage = 1] = [epoch |-> at.epoch, step |-> 0, stage |-> 1]
    BY <1>2, <1>8
  <2>2. CASE at.stage < stage_num
    <3>1. next = [epoch |-> at.epoch, step |-> 0, stage |-> at.stage + 1]
      BY <1>2, <1>3, <1>8, <2>2
    <3> QED
      BY <1>8, <2>1, <3>1 DEF Awaited
  <2>3. CASE ~(at.stage < stage_num)
    <3>1. next = [epoch |-> at.epoch, step |-> 1, stage |-> 1]
      BY <1>1, <1>2, <1>3, <1>8, <2>3
    <3>2. Shown(next) = [epoch |-> at.epoch, step |-> 0, stage |-> 1]
      BY <1>2, <3>1 DEF Shown
    <3> QED
      BY <1>8, <2>1, <3>1, <3>2 DEF Awaited
  <2> QED
    BY <2>2, <2>3
<1>9. ASSUME at.step # 0
      PROVE  /\ Awaited(at) = Shown(at)
             /\ Awaited(next) = After(Shown(at), 0, Chunks(m) - 1)
  <2>1. Shown(at) = [epoch |-> at.epoch, step |-> at.step - 1, stage |-> at.stage]
        /\ Shown(at) \in Positions
    BY <1>1, <1>2, <1>9, ShownEquals DEF Positions, Stages
  <2>2. After(Shown(at), 0, Chunks(m) - 1) =
             IF at.stage < stage_num
             THEN [epoch |-> at.epoch, step |-> at.step - 1, stage |-> at.stage + 1]
             ELSE IF at.step - 1 < Chunks(m) - 1
             THEN [epoch |-> at.epoch, step |-> at.step - 1 + 1, stage |-> 1]
             ELSE [epoch |-> at.epoch + 1, step |-> 0, stage |-> 1]
    <3>1. Chunks(m) - 1 \in Nat
      BY <1>1
    <3> QED
      BY <2>1, <3>1, AfterEquals
  <2>3. Shown(next) = [epoch |-> next.epoch, step |-> next.step - 1, stage |-> next.stage]
    BY <1>5, ShownEquals
  <2>4. [next EXCEPT !.stage = 1] = [epoch |-> next.epoch, step |-> next.step, stage |-> 1]
    BY <1>5 DEF Positions
  <2>5. Awaited(next) = After(Shown(at), 0, Chunks(m) - 1)
    <3>1. CASE at.stage < stage_num
      <4>1. next.step = at.step /\ next.epoch = at.epoch /\ next.stage = at.stage + 1
        BY <1>3, <3>1
      <4> QED
        BY <1>9, <2>2, <2>3, <3>1, <4>1 DEF Awaited
    <3>2. CASE ~(at.stage < stage_num) /\ at.step < Chunks(m)
      <4>1. next.step = at.step + 1 /\ next.epoch = at.epoch /\ next.stage = 1
        BY <1>3, <3>2
      <4> QED
        BY <1>1, <1>2, <1>9, <2>2, <2>3, <3>2, <4>1 DEF Awaited
    <3>3. CASE ~(at.stage < stage_num) /\ ~(at.step < Chunks(m))
      <4>1. next.step = 0 /\ next.epoch = at.epoch + 1 /\ next.stage = 1
        BY <1>3, <3>3
      <4> QED
        BY <1>1, <1>2, <1>9, <2>2, <2>4, <3>3, <4>1 DEF Awaited
    <3> QED
      BY <3>1, <3>2, <3>3
  <2> QED
    BY <1>9, <2>5 DEF Awaited
<1> QED
  BY <1>6, <1>7, <1>8, <1>9 DEF next

(* A rollout rank's step takes one observation and answers it, or it is the *)
(* last of an epoch and the next to be answered stays the same.             *)
LEMMA RolloutTurn ==
  ASSUME NEW m \in Modes, NEW at \in Place(m), at.step \in 1 .. RolloutSteps(m)
  PROVE  LET next == After(at, 1, RolloutSteps(m)) IN
         /\ Shown(at) \in Place(m)
         /\ Shown(next) = After(Shown(at), 0, LastTold(m))
         /\ at.step <= Chunks(m) => /\ ToAnswer(at, m) = Shown(at)
                                    /\ ToAnswer(next, m) = After(Shown(at), 0, Chunks(m) - 1)
         /\ ~(at.step <= Chunks(m)) => ToAnswer(next, m) = ToAnswer(at, m)
<1> DEFINE next == After(at, 1, RolloutSteps(m))
<1>1. /\ Chunks(m) \in Nat \ {0} /\ stage_num \in Nat \ {0} /\ LastTold(m) \in Nat
      /\ RolloutSteps(m) \in Nat \ {0} /\ RolloutSteps(m) = LastTold(m) + 1
      /\ m = "train" \/ m = "eval"
      /\ m = "train" => LastTold(m) = Chunks(m)
      /\ m = "eval" => LastTold(m) = Chunks(m) - 1
  BY Loops DEF Modes
<1>2. /\ at \in Positions /\ at = [epoch |-> at.epoch, step |-> at.step, stage |-> at.stage]
      /\ at.epoch \in Nat /\ at.epoch \in 1 .. Epochs(m) /\ at.step \in Nat /\ at.step >= 1
      /\ at.step <= RolloutSteps(m)
      /\ at.stage \in Nat /\ at.stage >= 1 /\ at.stage <= stage_num
  BY <1>1, PlaceFields
<1>3. next = IF at.stage < stage_num
             THEN [epoch |-> at.epoch, step |-> at.step, stage |-> at.stage + 1]
             ELSE IF at.step < RolloutSteps(m)
             THEN [epoch |-> at.epoch, step |-> at.step + 1, stage |-> 1]
             ELSE [epoch |-> at.epoch + 1, step |-> 1, stage |-> 1]
  BY <1>1, <1>2, AfterEquals
<1>4. /\ Shown(at) = [epoch |-> at.epoch, step |-> at.step - 1, stage |-> at.stage]
      /\ Shown(at) \in Positions /\ Shown(at) \in Place(m)
  BY <1>1, <1>2, ShownEquals DEF Positions, Stages, Place
<1>5. After(Shown(at), 0, LastTold(m)) =
             IF at.stage < stage_num
             THEN [epoch |-> at.epoch, step |-> at.step - 1, stage |-> at.stage + 1]
             ELSE IF at.step - 1 < LastTold(m)
             THEN [epoch |-> at.epoch, step |-> at.step - 1 + 1, stage |-> 1]
             ELSE [epoch |-> at.epoch + 1, step |-> 0, stage |-> 1]
  BY <1>1, <1>4, AfterEquals
<1>6. After(Shown(at), 0, Chunks(m) - 1) =
             IF at.stage < stage_num
             THEN [epoch |-> at.epoch, step |-> at.step - 1, stage |-> at.stage + 1]
             ELSE IF at.step - 1 < Chunks(m) - 1
             THEN [epoch |-> at.epoch, step |-> at.step - 1 + 1, stage |-> 1]
             ELSE [epoch |-> at.epoch + 1, step |-> 0, stage |-> 1]
  <2>1. Chunks(m) - 1 \in Nat
    BY <1>1
  <2> QED
    BY <1>4, <2>1, AfterEquals
<1>7. next \in Positions
  BY <1>1, <1>2, <1>3 DEF Positions, Stages
<1> HIDE DEF next
<1>8. Shown(next) = [epoch |-> next.epoch, step |-> next.step - 1, stage |-> next.stage]
  BY <1>7, ShownEquals
<1>9. Shown(next) = After(Shown(at), 0, LastTold(m))
  BY <1>1, <1>2, <1>3, <1>5, <1>8
<1>10. ASSUME at.step <= Chunks(m)
       PROVE  ToAnswer(next, m) = After(Shown(at), 0, Chunks(m) - 1)
  <2>1. CASE at.stage < stage_num
    BY <1>1, <1>2, <1>3, <1>6, <1>8, <1>10, <2>1 DEF ToAnswer
  <2>2. CASE ~(at.stage < stage_num) /\ at.step < Chunks(m)
    <3>1. next = [epoch |-> at.epoch, step |-> at.step + 1, stage |-> 1]
      BY <1>1, <1>2, <1>3, <2>2
    <3> QED
      BY <1>1, <1>2, <1>6, <1>8, <2>2, <3>1 DEF ToAnswer
  <2>3. CASE ~(at.stage < stage_num) /\ ~(at.step < Chunks(m))
    <3>1. CASE m = "train"
      <4>1. next = [epoch |-> at.epoch, step |-> at.step + 1, stage |-> 1]
        BY <1>1, <1>2, <1>3, <1>10, <2>3, <3>1
      <4> QED
        BY <1>1, <1>2, <1>6, <2>3, <4>1 DEF ToAnswer, NextEpoch
    <3>2. CASE m = "eval"
      <4>1. next = [epoch |-> at.epoch + 1, step |-> 1, stage |-> 1]
        BY <1>1, <1>2, <1>3, <1>10, <2>3, <3>2
      <4> QED
        BY <1>1, <1>2, <1>6, <1>8, <2>3, <4>1 DEF ToAnswer
    <3> QED
      BY <1>1, <3>1, <3>2
  <2> QED
    BY <2>1, <2>2, <2>3
<1>11. ASSUME ~(at.step <= Chunks(m)) PROVE ToAnswer(next, m) = ToAnswer(at, m)
  <2>1. m = "train" /\ at.step = Chunks(m) + 1 /\ at.step = RolloutSteps(m)
    BY <1>1, <1>2, <1>11
  <2>2. CASE at.stage < stage_num
    <3>1. next.step = at.step /\ next.epoch = at.epoch
      BY <1>3, <2>2
    <3> QED
      BY <3>1, <1>11 DEF ToAnswer, NextEpoch
  <2>3. CASE ~(at.stage < stage_num)
    <3>1. next = [epoch |-> at.epoch + 1, step |-> 1, stage |-> 1]
      BY <1>1, <1>2, <1>3, <2>1, <2>3
    <3> QED
      BY <1>1, <1>2, <1>8, <1>11, <3>1 DEF ToAnswer, NextEpoch
  <2> QED
    BY <2>2, <2>3
<1> QED
  BY <1>4, <1>9, <1>10, <1>11 DEF next, ToAnswer

-----------------------------------------------------------------------------
(* Who serves whom. *)

(* The rollout ranks are dealt to the environment ranks, some to each,     *)
(* every one to one.                                                        *)
LEMMA GatheredRanks ==
  ASSUME NEW e \in EnvRanks
  PROVE  Gathered(e) \subseteq RolloutRanks /\ Gathered(e) # {}
<1>1. env_num \in Nat \ {0} /\ gather_num \in Nat \ {0} /\ e \in Nat /\ e <= env_num - 1
  BY PipelineAssumption DEF EnvRanks
<1>2. e * gather_num \in Nat /\ e * gather_num + gather_num <= env_num * gather_num
  <2>1. e * gather_num \in Nat /\ env_num * gather_num \in Nat
    BY <1>1
  <2>2. (env_num - (e + 1)) * gather_num \in Nat /\ env_num - (e + 1) \in Nat
    BY <1>1
  <2>3. (env_num - (e + 1)) * gather_num = env_num * gather_num - e * gather_num - gather_num
    BY <1>1
  <2> QED
    BY <1>1, <2>1, <2>2, <2>3
<1>3. env_num * gather_num \in Nat
  BY <1>1
<1>4. 0 + e * gather_num \in Gathered(e)
  BY <1>1 DEF Gathered
<1> DEFINE first == e * gather_num
           all   == env_num * gather_num
<1>5. first \in Nat /\ all \in Nat /\ first + gather_num <= all
  BY <1>2, <1>3
<1>6. Gathered(e) = {g + first : g \in 0 .. gather_num - 1} /\ RolloutRanks = 0 .. all - 1
  BY DEF Gathered, RolloutRanks
<1> HIDE DEF first, all
<1> QED
  BY <1>1, <1>4, <1>5, <1>6

LEMMA EveryRankServes ==
  ASSUME NEW r \in RolloutRanks
  PROVE  \E e \in EnvRanks : r \in Gathered(e)
<1> DEFINE e == r \div gather_num
           g == r % gather_num
<1>1. env_num \in Nat \ {0} /\ gather_num \in Nat \ {0}
  BY PipelineAssumption
<1>2. env_num * gather_num \in Nat
  BY <1>1
<1>3. r \in Nat /\ r < env_num * gather_num
  BY <1>2 DEF RolloutRanks
<1>4. g \in 0 .. gather_num - 1 /\ e \in Nat /\ r = g + e * gather_num
  BY <1>1, <1>3
<1> HIDE DEF e, g
<1>5. e <= env_num - 1
  <2> SUFFICES ASSUME e >= env_num PROVE FALSE
    BY <1>1, <1>4
  <2>1. (e - env_num) * gather_num \in Nat
    <3>1. e - env_num \in Nat
      BY <1>1, <1>4
    <3> QED
      BY <1>1, <3>1
  <2>2. (e - env_num) * gather_num = e * gather_num - env_num * gather_num
    BY <1>1, <1>4
  <2>3. e * gather_num \in Nat
    BY <1>1, <1>4
  <2> QED
    BY <1>2, <1>3, <1>4, <2>1, <2>2, <2>3
<1>6. e \in EnvRanks
  BY <1>1, <1>4, <1>5 DEF EnvRanks
<1>7. r \in Gathered(e)
  BY <1>4 DEF Gathered
<1> QED
  BY <1>6, <1>7

LEMMA ServesOne ==
  ASSUME NEW e \in EnvRanks, NEW f \in EnvRanks, NEW r \in Gathered(e), r \in Gathered(f)
  PROVE  e = f
<1>1. env_num \in Nat \ {0} /\ gather_num \in Nat \ {0} /\ e \in Nat /\ f \in Nat
  BY PipelineAssumption DEF EnvRanks
<1>2. PICK g \in 0 .. gather_num - 1 : r = g + e * gather_num
  BY DEF Gathered
<1>3. PICK h \in 0 .. gather_num - 1 : r = h + f * gather_num
  BY DEF Gathered
<1>4. g - h = (f - e) * gather_num
  BY <1>1, <1>2, <1>3
<1>5. 0 - gather_num < g - h /\ g - h < gather_num
  BY <1>1, <1>2, <1>3
<1>6. ASSUME NEW d \in Int, 0 - gather_num < d * gather_num, d * gather_num < gather_num
      PROVE  d = 0
  <2>1. CASE d >= 1
    <3>1. (d - 1) * gather_num \in Nat /\ (d - 1) * gather_num = d * gather_num - gather_num
      <4>1. d - 1 \in Nat
        BY <2>1
      <4> QED
        BY <1>1, <4>1
    <3> QED
      BY <1>1, <1>6, <3>1
  <2>2. CASE d <= 0 - 1
    <3>1. (0 - 1 - d) * gather_num \in Nat /\ (0 - 1 - d) * gather_num = 0 - gather_num - d * gather_num
      <4>1. 0 - 1 - d \in Nat
        BY <2>2
      <4> QED
        BY <1>1, <4>1
    <3> QED
      BY <1>1, <1>6, <3>1
  <2> QED
    BY <2>1, <2>2
<1>7. f - e = 0
  <2>1. f - e \in Int
    BY <1>1
  <2> QED
    BY <1>4, <1>5, <1>6, <2>1
<1> QED
  BY <1>1, <1>7

-----------------------------------------------------------------------------
(* What is under way. *)

(* p are the positions from a to before b, of loops whose steps go from 0   *)
(* to last.                                                                 *)
Linked(p, a, b, last) ==
  /\ p = <<>> => a = b
  /\ p # <<>> => Head(p) = a /\ b = After(p[Len(p)], 0, last)
  /\ \A i \in 1 .. Len(p) - 1 : p[i + 1] = After(p[i], 0, last)

(* What F says of the members of queue q, in their order. *)
Along(F, q) == [i \in DOMAIN q |-> F[q[i]]]
Img(F, S)   == {F[x] : x \in S}

(* Positions stay linked when the next joins or the first leaves. *)
LEMMA JoinLinked ==
  ASSUME NEW S, NEW p \in Seq(S), NEW a, NEW b \in S, NEW last, Linked(p, a, b, last)
  PROVE  Linked(Append(p, b), a, After(b, 0, last), last)
<1> DEFINE q == Append(p, b)
<1>1. /\ Len(p) \in Nat /\ Len(q) = Len(p) + 1 /\ q[Len(p) + 1] = b /\ q # <<>>
      /\ \A i \in 1 .. Len(p) : q[i] = p[i]
      /\ Head(q) = q[1]
  OBVIOUS
<1>2. Head(q) = a
  <2>1. CASE p = <<>>
    BY <1>1, <2>1 DEF Linked
  <2>2. CASE p # <<>>
    BY <1>1, <2>2 DEF Linked
  <2> QED
    BY <2>1, <2>2
<1>3. ASSUME NEW i \in 1 .. Len(q) - 1 PROVE q[i + 1] = After(q[i], 0, last)
  <2>1. CASE i = Len(p)
    <3>1. p # <<>> /\ q[i] = p[Len(p)] /\ q[i + 1] = b
      BY <1>1, <1>3, <2>1
    <3> QED
      BY <3>1 DEF Linked
  <2>2. CASE i # Len(p)
    <3>1. i \in 1 .. Len(p) - 1 /\ q[i] = p[i] /\ q[i + 1] = p[i + 1]
      BY <1>1, <1>3, <2>2
    <3> QED
      BY <3>1 DEF Linked
  <2> QED
    BY <2>1, <2>2
<1> HIDE DEF q
<1>4. Linked(q, a, After(b, 0, last), last)
  BY <1>1, <1>2, <1>3 DEF Linked
<1> QED
  BY <1>4 DEF q

LEMMA LeaveLinked ==
  ASSUME NEW S, NEW p \in Seq(S), NEW a, NEW b, NEW last, Linked(p, a, b, last), p # <<>>
  PROVE  Linked(Tail(p), After(a, 0, last), b, last) /\ Head(p) = a
<1> DEFINE q == Tail(p)
<1>1. /\ Len(p) \in Nat \ {0} /\ Len(q) = Len(p) - 1 /\ Head(p) = p[1]
      /\ \A i \in 1 .. Len(p) - 1 : q[i] = p[i + 1]
      /\ q # <<>> => Head(q) = q[1]
      /\ q = <<>> <=> Len(p) = 1
  <2>1. Len(p) \in Nat \ {0} /\ Len(q) = Len(p) - 1 /\ Head(p) = p[1] /\ q \in Seq(S)
    OBVIOUS
  <2>2. \A i \in 1 .. Len(p) - 1 : q[i] = p[i + 1]
    OBVIOUS
  <2>3. q # <<>> => Head(q) = q[1]
    OBVIOUS
  <2>4. q = <<>> <=> Len(q) = 0
    BY <2>1
  <2> QED
    BY <2>1, <2>2, <2>3, <2>4
<1>2. p[1] = a /\ b = After(p[Len(p)], 0, last)
  BY <1>1 DEF Linked
<1>3. q = <<>> => After(a, 0, last) = b
  BY <1>1, <1>2
<1>4. ASSUME q # <<>> PROVE Head(q) = After(a, 0, last) /\ b = After(q[Len(q)], 0, last)
  <2>1. 1 \in 1 .. Len(p) - 1 /\ Len(q) \in 1 .. Len(p) - 1 /\ Len(q) + 1 = Len(p)
    BY <1>1, <1>4
  <2>2. p[1 + 1] = After(p[1], 0, last)
    BY <2>1 DEF Linked
  <2> QED
    BY <1>1, <1>2, <1>4, <2>1, <2>2
<1>5. ASSUME NEW i \in 1 .. Len(q) - 1 PROVE q[i + 1] = After(q[i], 0, last)
  <2>1. /\ i \in 1 .. Len(p) - 1 /\ i + 1 \in 1 .. Len(p) - 1
        /\ q[i] = p[i + 1] /\ q[i + 1] = p[(i + 1) + 1]
    BY <1>1
  <2> QED
    BY <2>1 DEF Linked
<1> HIDE DEF q
<1>6. Linked(q, After(a, 0, last), b, last)
  BY <1>3, <1>4, <1>5 DEF Linked
<1> QED
  BY <1>1, <1>2, <1>6 DEF q

(* What F says of the members of a queue, of a longer and of a shorter one. *)
LEMMA AlongQueue ==
  ASSUME NEW S, NEW F, NEW q \in Seq(S)
  PROVE  /\ Along(F, q) \in Seq(Img(F, S)) /\ Len(Along(F, q)) = Len(q)
         /\ \A i \in 1 .. Len(q) : Along(F, q)[i] = F[q[i]]
         /\ Along(F, q) = <<>> <=> q = <<>>
<1>1. DOMAIN q = 1 .. Len(q) /\ Len(q) \in Nat /\ \A i \in 1 .. Len(q) : q[i] \in S
  OBVIOUS
<1>2. \A x \in S : F[x] \in Img(F, S)
  BY DEF Img
<1> QED
  BY <1>1, <1>2 DEF Along

LEMMA AlongJoined ==
  ASSUME NEW S, NEW F, NEW q \in Seq(S), NEW o \in S
  PROVE  Along(F, Append(q, o)) = Append(Along(F, q), F[o])
<1> DEFINE t == Along(F, q)
<1>0. t \in Seq(Img(F, S)) /\ Len(t) = Len(q)
  BY AlongQueue
<1>1. t \in Seq(Img(F, S)) /\ Len(t) = Len(q) /\ \A i \in 1 .. Len(q) : t[i] = F[q[i]]
  BY <1>0 DEF Along
<1>2. F[o] \in Img(F, S) /\ Len(q) \in Nat
  BY DEF Img
<1>3. DOMAIN Append(q, o) = 1 .. Len(q) + 1
  OBVIOUS
<1> HIDE DEF t
<1>4. ASSUME NEW i \in 1 .. Len(q) + 1 PROVE F[Append(q, o)[i]] = Append(t, F[o])[i]
  BY <1>1, <1>2, <1>4
<1>5. Append(t, F[o]) = [i \in 1 .. Len(q) + 1 |-> Append(t, F[o])[i]]
  BY <1>1, <1>2
<1>6. Along(F, Append(q, o)) = [i \in 1 .. Len(q) + 1 |-> F[Append(q, o)[i]]]
  BY <1>3 DEF Along
<1> QED
  BY <1>4, <1>5, <1>6 DEF t

LEMMA AlongLeft ==
  ASSUME NEW S, NEW F, NEW q \in Seq(S), q # <<>>
  PROVE  Along(F, Tail(q)) = Tail(Along(F, q)) /\ Head(Along(F, q)) = F[Head(q)]
<1> DEFINE t == Along(F, q)
           u == Tail(t)
<1>0. t \in Seq(Img(F, S)) /\ Len(t) = Len(q) /\ t # <<>>
  BY AlongQueue
<1>1. t \in Seq(Img(F, S)) /\ Len(t) = Len(q) /\ t # <<>> /\ \A i \in 1 .. Len(q) : t[i] = F[q[i]]
  BY <1>0 DEF Along
<1>2. DOMAIN Tail(q) = 1 .. Len(q) - 1 /\ Len(q) \in Nat \ {0} /\ Head(q) = q[1]
  OBVIOUS
<1> HIDE DEF t
<1>3. u \in Seq(Img(F, S)) /\ Len(u) = Len(q) - 1 /\ Head(t) = t[1]
  BY <1>1
<1>4. ASSUME NEW i \in 1 .. Len(q) - 1 PROVE F[Tail(q)[i]] = u[i]
  BY <1>1, <1>2, <1>4
<1> HIDE DEF u
<1>5. u = [i \in 1 .. Len(q) - 1 |-> u[i]]
  BY <1>3
<1>6. Along(F, Tail(q)) = [i \in 1 .. Len(q) - 1 |-> F[Tail(q)[i]]]
  BY <1>2 DEF Along
<1>7. Along(F, Tail(q)) = u
  BY <1>4, <1>5, <1>6
<1>8. Head(t) = F[Head(q)]
  BY <1>1, <1>2, <1>3
<1> QED
  BY <1>7, <1>8 DEF t, u

(* A message that joins the queue is the one that was to join next, and the *)
(* one that leaves is the one it begins with.                               *)
LEMMA QueueJoined ==
  ASSUME NEW S, NEW F, NEW q \in Seq(S), NEW x \in S, NEW a, NEW last,
         Linked(Along(F, q), a, F[x], last)
  PROVE  Append(q, x) \in Seq(S) /\ Linked(Along(F, Append(q, x)), a, After(F[x], 0, last), last)
<1> DEFINE t == Along(F, q)
           b == F[x]
<1>1. t \in Seq(Img(F, S))
  BY AlongQueue
<1>2. Along(F, Append(q, x)) = Append(t, b)
  BY AlongJoined
<1>3. Append(q, x) \in Seq(S) /\ b \in Img(F, S) /\ Linked(t, a, b, last)
  BY DEF Img
<1> HIDE DEF t, b
<1>4. Linked(Append(t, b), a, After(b, 0, last), last)
  BY <1>1, <1>3, JoinLinked
<1> QED
  BY <1>2, <1>3, <1>4 DEF b

LEMMA QueueLeft ==
  ASSUME NEW S, NEW F, NEW q \in Seq(S), NEW a, NEW b, NEW last,
         Linked(Along(F, q), a, b, last), q # <<>>
  PROVE  /\ Tail(q) \in Seq(S) /\ Linked(Along(F, Tail(q)), After(a, 0, last), b, last)
         /\ Head(q) \in S /\ F[Head(q)] = a
<1> DEFINE t == Along(F, q)
<1>1. t \in Seq(Img(F, S)) /\ t # <<>>
  BY AlongQueue
<1>2. Along(F, Tail(q)) = Tail(t) /\ Head(t) = F[Head(q)]
  BY AlongLeft
<1>3. Tail(q) \in Seq(S) /\ Head(q) \in S /\ Linked(t, a, b, last)
  OBVIOUS
<1> HIDE DEF t
<1>4. Linked(Tail(t), After(a, 0, last), b, last) /\ Head(t) = a
  BY <1>1, <1>3, LeaveLinked
<1> QED
  BY <1>2, <1>3, <1>4

-----------------------------------------------------------------------------
(* The workers in a call of mode m. *)

Running(m) == pc = IF m = "train" THEN "generate" ELSE "evaluate"

(* Rank e has ended its call or runs it; so has rollout rank r, which has   *)
(* the weights of this step.                                                *)
EnvFits(e, m) ==
  \/ env_calls[e] = <<>> /\ env_at[e] = Start(0)
  \/ /\ env_calls[e] = <<[mode |-> m, run |-> global_step]>>
     /\ env_at[e] \in Place(m) /\ env_at[e].step <= Chunks(m)

RolloutFits(r, m) ==
  /\ policy[r] = version
  /\ \/ serving[r] = "none" /\ rollout_at[r] = Start(1)
     \/ /\ serving[r] = "send" /\ m = "train"
        /\ \E s \in Stages : rollout_at[r] = [Start(1) EXCEPT !.stage = s]
     \/ /\ serving[r] = m /\ rollout_at[r] \in Place(m)
        /\ rollout_at[r].step \in 1 .. RolloutSteps(m)

EnvAt(e, m)     == IF env_calls[e] = <<>> THEN End(m, 0) ELSE env_at[e]
RolloutAt(r, m) == IF serving[r] = m THEN rollout_at[r] ELSE End(m, 1)

(* Between an environment rank and one of its rollout ranks are the         *)
(* observations from the one the latter takes next to the one the former    *)
(* tells next, and the actions from the one the former waits for next to    *)
(* the one the latter answers next.                                         *)
Observation(m) == [run : {global_step}, at : Place(m)]
Reply(m)       == [obs : Observation(m), policy : {version}]
AtOf(m)        == [o \in Observation(m) |-> o.at]
AnsweredAt(m)  == [x \in Reply(m) |-> x.obs.at]

ObservationsFlow(e, r, m) ==
  /\ env_channel[<<r, m>>] \in Seq(Observation(m))
  /\ Linked(Along(AtOf(m), env_channel[<<r, m>>]),
            Shown(RolloutAt(r, m)), ToTell(EnvAt(e, m), m), LastTold(m))

RepliesFlow(e, r, m) ==
  /\ rollout_channel[<<r, m>>] \in Seq(Reply(m))
  /\ Linked(Along(AnsweredAt(m), rollout_channel[<<r, m>>]),
            Awaited(EnvAt(e, m)), ToAnswer(RolloutAt(r, m), m), Chunks(m) - 1)

CallsFit(m) ==
  /\ \A e \in EnvRanks : EnvFits(e, m)
  /\ \A r \in RolloutRanks : RolloutFits(r, m)
  /\ \A e \in EnvRanks : \A r \in Gathered(e) :
       ObservationsFlow(e, r, m) /\ RepliesFlow(e, r, m)

NoneCalled ==
  /\ \A e \in EnvRanks : env_calls[e] = <<>> /\ env_at[e] = Start(0)
  /\ \A r \in RolloutRanks : serving[r] = "none" /\ rollout_at[r] = Start(1)

Quiet(m) == \A r \in RolloutRanks : env_channel[<<r, m>>] = <<>> /\ rollout_channel[<<r, m>>] = <<>>

(* The variables are functions of the ranks. *)
PerRank ==
  /\ env_calls = [e \in EnvRanks |-> env_calls[e]] /\ env_at = [e \in EnvRanks |-> env_at[e]]
  /\ policy = [r \in RolloutRanks |-> policy[r]] /\ serving = [r \in RolloutRanks |-> serving[r]]
  /\ rollout_at = [r \in RolloutRanks |-> rollout_at[r]]
  /\ env_channel = [q \in RolloutRanks \X Modes |-> env_channel[q]]
  /\ rollout_channel = [q \in RolloutRanks \X Modes |-> rollout_channel[q]]

(* The inductive invariant: in a call of mode m its messages flow; the      *)
(* channels of the other mode, and between calls all, are empty, nobody is  *)
(* in a call, and the weight sync has reached the ranks it left.            *)
LoopsFit ==
  /\ PerRank
  /\ \A m \in Modes : (Running(m) => CallsFit(m)) /\ (~Running(m) => Quiet(m))
  /\ (\A m \in Modes : ~Running(m)) => NoneCalled
  /\ pc \in {"sync", "sync_eval"} => \A r \in RolloutRanks : r \in unsynced \/ policy[r] = version

-----------------------------------------------------------------------------
(* Environment ranks. *)

(* A step moves a rank to the next position, or its call ends. *)
LEMMA EnvMoves ==
  ASSUME NEW m \in Modes, NEW e \in EnvRanks, PerRank, EnvFits(e, m), EnvRuns(e, m),
         EnvGoesOn(e, m), UNCHANGED global_step
  PROVE  /\ EnvFits(e, m)' /\ env_at[e] \in Place(m) /\ env_at[e].step <= Chunks(m)
         /\ env_calls[e] = <<[mode |-> m, run |-> global_step]>>
         /\ EnvAt(e, m) = env_at[e]
         /\ EnvAt(e, m)' = After(env_at[e], 0, Chunks(m))
         /\ \A f \in EnvRanks \ {e} : UNCHANGED <<env_calls[f], env_at[f]>>
         /\ env_calls' = [f \in EnvRanks |-> env_calls'[f]]
         /\ env_at' = [f \in EnvRanks |-> env_at'[f]]
<1> DEFINE call == [mode |-> m, run |-> global_step]
           next == After(env_at[e], 0, Chunks(m))
<1>1. env_calls[e] = <<call>> /\ env_at[e] \in Place(m) /\ env_at[e].step <= Chunks(m)
  BY DEF EnvFits, EnvRuns
<1>2. /\ next.epoch <= Epochs(m) => next \in Place(m) /\ next.step <= Chunks(m)
      /\ next.epoch > Epochs(m) => next = End(m, 0)
      /\ next.epoch \in Nat
  BY <1>1, EnvLoops
<1>3. /\ env_at' = [env_at EXCEPT ![e] = IF next.epoch > Epochs(m) THEN Start(0) ELSE next]
      /\ env_calls' = [env_calls EXCEPT ![e] =
                         IF next.epoch > Epochs(m) THEN Tail(env_calls[e]) ELSE env_calls[e]]
  BY DEF EnvGoesOn
<1>4. <<call>> # <<>> /\ Tail(<<call>>) = <<>>
  OBVIOUS
<1>5. Epochs(m) \in Nat
  BY Loops
<1> HIDE DEF next, call
<1>6. /\ env_at'[e] = IF next.epoch > Epochs(m) THEN Start(0) ELSE next
      /\ env_calls'[e] = IF next.epoch > Epochs(m) THEN <<>> ELSE <<call>>
  BY <1>1, <1>3, <1>4 DEF PerRank
<1>7. /\ \A f \in EnvRanks \ {e} : UNCHANGED <<env_calls[f], env_at[f]>>
      /\ env_calls' = [f \in EnvRanks |-> env_calls'[f]]
      /\ env_at' = [f \in EnvRanks |-> env_at'[f]]
  BY <1>3 DEF PerRank
<1>8. CASE next.epoch > Epochs(m)
  BY <1>1, <1>2, <1>4, <1>6, <1>7, <1>8 DEF EnvFits, EnvAt, next, call, End
<1>9. CASE ~(next.epoch > Epochs(m))
  <2>1. env_calls'[e] = <<call>> /\ env_at'[e] = next
    BY <1>6, <1>9
  <2>2. next \in Place(m) /\ next.step <= Chunks(m)
    BY <1>2, <1>5, <1>9
  <2>3. EnvFits(e, m)'
    <3>1. Place(m)' = Place(m) /\ Chunks(m)' = Chunks(m) /\ call' = call
      BY DEF Place, Chunks, Epochs, Stages, call
    <3> QED
      BY <2>1, <2>2, <3>1 DEF EnvFits, call
  <2>4. EnvAt(e, m) = env_at[e] /\ EnvAt(e, m)' = next
    BY <1>1, <1>4, <2>1 DEF EnvAt
  <2> QED
    BY <1>1, <1>7, <2>3, <2>4 DEF next, call
<1> QED
  BY <1>8, <1>9

(* Telling an observation extends those under way. *)
LEMMA TellFlows ==
  ASSUME NEW m \in Modes, NEW e \in EnvRanks, NEW r \in Gathered(e), PerRank, EnvFits(e, m),
         EnvRuns(e, m), EnvGoesOn(e, m), UNCHANGED <<global_step, serving, rollout_at>>,
         ObservationsFlow(e, r, m),
         ~(m = "eval" /\ env_at[e].step = Chunks(m)), Tell(e, m, env_at[e])
  PROVE  ObservationsFlow(e, r, m)'
<1> DEFINE at == env_at[e]
           o  == Obs(e, at)
           q  == env_channel[<<r, m>>]
           a  == Shown(RolloutAt(r, m))
<1>1. /\ at \in Place(m) /\ at.step <= Chunks(m) /\ EnvAt(e, m) = at
      /\ EnvAt(e, m)' = After(at, 0, Chunks(m))
      /\ env_calls[e] = <<[mode |-> m, run |-> global_step]>>
  BY EnvMoves
<1>2. ToTell(at, m) = at /\ ToTell(EnvAt(e, m)', m) = After(at, 0, LastTold(m))
  BY <1>1, EnvTurn
<1>3. o \in Observation(m) /\ AtOf(m)[o] = at
  BY <1>1 DEF Obs, Observation, AtOf
<1>4. q \in Seq(Observation(m)) /\ Linked(Along(AtOf(m), q), a, at, LastTold(m))
  BY <1>1, <1>2 DEF ObservationsFlow
<1>5. env_channel'[<<r, m>>] = Append(q, o)
  <2>1. <<r, m>> \in RolloutRanks \X Modes
    BY GatheredRanks
  <2> QED
    BY <2>1 DEF Tell
<1>6. AtOf(m) \in [Observation(m) -> Place(m)]
  BY DEF AtOf, Observation
<1>7. UNCHANGED <<Observation(m), AtOf(m), RolloutAt(r, m), LastTold(m)>>
  BY DEF Observation, AtOf, RolloutAt, LastTold, Place, Epochs, Stages, End
<1> DEFINE F == AtOf(m)
           S == Observation(m)
           last == LastTold(m)
<1> HIDE DEF at, o, q, a
<1>8. q \in Seq(S) /\ o \in S /\ Linked(Along(F, q), a, F[o], last)
  BY <1>3, <1>4, <1>6
<1> HIDE DEF F, S, last
<1>9. Append(q, o) \in Seq(S) /\ Linked(Along(F, Append(q, o)), a, After(F[o], 0, last), last)
  BY <1>8, QueueJoined
<1> USE DEF F, S, last
<1>10. Shown(RolloutAt(r, m)') = a
  BY <1>7 DEF a
<1>11. /\ Along(AtOf(m), env_channel[<<r, m>>])' = Along(AtOf(m), Append(q, o))
       /\ ToTell(EnvAt(e, m), m)' = After(at, 0, LastTold(m))
       /\ Shown(RolloutAt(r, m))' = a
  <2>1. Along(AtOf(m), env_channel[<<r, m>>])' = Along(AtOf(m)', env_channel'[<<r, m>>])
    BY DEF Along
  <2>2. ToTell(EnvAt(e, m), m)' = ToTell(EnvAt(e, m)', m)
    BY DEF ToTell, NextEpoch, Chunks
  <2>3. Shown(RolloutAt(r, m))' = Shown(RolloutAt(r, m)')
    BY DEF Shown
  <2> QED
    BY <1>2, <1>5, <1>7, <1>10, <2>1, <2>2, <2>3
<1>12. env_channel'[<<r, m>>] \in Seq(Observation(m))'
  BY <1>5, <1>7, <1>9
<1> QED
  BY <1>3, <1>7, <1>9, <1>11, <1>12 DEF ObservationsFlow, Linked

(* The last observations of an epoch of evaluation are not told. *)
LEMMA NotTellingFlows ==
  ASSUME NEW m \in Modes, NEW e \in EnvRanks, NEW r \in Gathered(e), PerRank, EnvFits(e, m),
         EnvRuns(e, m), EnvGoesOn(e, m), UNCHANGED <<global_step, serving, rollout_at>>,
         ObservationsFlow(e, r, m),
         m = "eval" /\ env_at[e].step = Chunks(m), UNCHANGED env_channel
  PROVE  ObservationsFlow(e, r, m)'
<1> DEFINE at == env_at[e]
<1>1. /\ at \in Place(m) /\ at.step <= Chunks(m) /\ EnvAt(e, m) = at
      /\ EnvAt(e, m)' = After(at, 0, Chunks(m))
  BY EnvMoves
<1>2. ToTell(EnvAt(e, m)', m) = ToTell(EnvAt(e, m), m)
  BY <1>1, EnvTurn
<1>3. UNCHANGED <<Observation(m), AtOf(m), RolloutAt(r, m), LastTold(m)>>
  BY DEF Observation, AtOf, RolloutAt, LastTold, Place, Epochs, Stages, End
<1>4. /\ Along(AtOf(m), env_channel[<<r, m>>])' = Along(AtOf(m), env_channel[<<r, m>>])
      /\ ToTell(EnvAt(e, m), m)' = ToTell(EnvAt(e, m)', m)
      /\ Shown(RolloutAt(r, m))' = Shown(RolloutAt(r, m))
  BY <1>3 DEF Along, ToTell, NextEpoch, Chunks, Shown
<1> QED
  BY <1>2, <1>3, <1>4 DEF ObservationsFlow, Linked

(* The first observations of an epoch are told before any action is waited  *)
(* for.                                                                     *)
LEMMA InitialFlows ==
  ASSUME NEW m \in Modes, NEW e \in EnvRanks, NEW r \in Gathered(e), PerRank, EnvFits(e, m),
         EnvRuns(e, m), EnvGoesOn(e, m), UNCHANGED <<global_step, version, serving, rollout_at>>,
         RepliesFlow(e, r, m), env_at[e].step = 0, UNCHANGED rollout_channel
  PROVE  RepliesFlow(e, r, m)'
<1> DEFINE at == env_at[e]
<1>1. /\ at \in Place(m) /\ at.step <= Chunks(m) /\ EnvAt(e, m) = at
      /\ EnvAt(e, m)' = After(at, 0, Chunks(m))
  BY EnvMoves
<1>2. Awaited(EnvAt(e, m)') = Awaited(EnvAt(e, m))
  BY <1>1, EnvTurn
<1>3. UNCHANGED <<Reply(m), AnsweredAt(m), RolloutAt(r, m), Chunks(m)>>
  BY DEF Reply, Observation, AnsweredAt, RolloutAt, Chunks, Place, Epochs, Stages, End
<1>4. /\ Along(AnsweredAt(m), rollout_channel[<<r, m>>])' =
           Along(AnsweredAt(m), rollout_channel[<<r, m>>])
      /\ Awaited(EnvAt(e, m))' = Awaited(EnvAt(e, m)')
      /\ ToAnswer(RolloutAt(r, m), m)' = ToAnswer(RolloutAt(r, m), m)
  BY <1>3 DEF Along, Awaited, ToAnswer, NextEpoch, Chunks, Shown
<1> QED
  BY <1>2, <1>3, <1>4 DEF RepliesFlow, Linked

(* The action an environment rank takes is the one it waits for. *)
LEMMA ConsumeFlows ==
  ASSUME NEW m \in Modes, NEW e \in EnvRanks, NEW r \in Gathered(e), PerRank, EnvFits(e, m),
         EnvRuns(e, m), EnvGoesOn(e, m), UNCHANGED <<global_step, version, serving, rollout_at>>,
         RepliesFlow(e, r, m), env_at[e].step # 0, Consume(e, m)
  PROVE  RepliesFlow(e, r, m)'
<1> DEFINE at == env_at[e]
           q  == rollout_channel[<<r, m>>]
           b  == ToAnswer(RolloutAt(r, m), m)
<1>1. /\ at \in Place(m) /\ at.step <= Chunks(m) /\ EnvAt(e, m) = at
      /\ EnvAt(e, m)' = After(at, 0, Chunks(m))
  BY EnvMoves
<1>2. Awaited(at) = Shown(at) /\ Awaited(EnvAt(e, m)') = After(Shown(at), 0, Chunks(m) - 1)
  BY <1>1, EnvTurn
<1>3. q \in Seq(Reply(m)) /\ Linked(Along(AnsweredAt(m), q), Shown(at), b, Chunks(m) - 1)
  BY <1>1, <1>2 DEF RepliesFlow
<1>4. q # <<>> /\ rollout_channel'[<<r, m>>] = Tail(q)
  <2>1. <<r, m>> \in RolloutRanks \X Modes
    BY GatheredRanks
  <2> QED
    BY <2>1 DEF Consume
<1>5. AnsweredAt(m) \in [Reply(m) -> Place(m)]
  BY DEF AnsweredAt, Reply, Observation
<1>6. UNCHANGED <<Reply(m), AnsweredAt(m), RolloutAt(r, m), Chunks(m)>>
  BY DEF Reply, Observation, AnsweredAt, RolloutAt, Chunks, Place, Epochs, Stages, End
<1>7. ToAnswer(RolloutAt(r, m), m)' = b /\ Awaited(EnvAt(e, m))' = Awaited(EnvAt(e, m)')
  BY <1>6 DEF ToAnswer, NextEpoch, Shown, Awaited, Chunks
<1> DEFINE F == AnsweredAt(m)
           S == Reply(m)
           a == Shown(at)
           last == Chunks(m) - 1
<1> HIDE DEF at, q, b
<1>8. q \in Seq(S) /\ q # <<>> /\ Linked(Along(F, q), a, b, last)
  BY <1>3, <1>4, <1>5
<1> HIDE DEF F, S, a, last
<1>9. /\ Tail(q) \in Seq(S) /\ Linked(Along(F, Tail(q)), After(a, 0, last), b, last)
      /\ Head(q) \in S /\ F[Head(q)] = a
  BY <1>8, QueueLeft
<1> USE DEF F, S, a, last
<1>10. Along(AnsweredAt(m), rollout_channel[<<r, m>>])' = Along(AnsweredAt(m), Tail(q))
  <2>1. Along(AnsweredAt(m), rollout_channel[<<r, m>>])' =
          Along(AnsweredAt(m)', rollout_channel'[<<r, m>>])
    BY DEF Along
  <2> QED
    BY <1>4, <1>6, <2>1
<1>11. rollout_channel'[<<r, m>>] \in Seq(Reply(m))'
  BY <1>4, <1>6, <1>9
<1> QED
  BY <1>2, <1>6, <1>7, <1>9, <1>10, <1>11 DEF RepliesFlow, Linked

-----------------------------------------------------------------------------
(* Rollout ranks. *)

(* A step moves a rank to the next position, or its call ends. *)
LEMMA RolloutMoves ==
  ASSUME NEW m \in Modes, NEW r \in RolloutRanks, PerRank, RolloutFits(r, m), serving[r] = m,
         RolloutGoesOn(r, m, RolloutSteps(m)), UNCHANGED <<policy, version>>
  PROVE  /\ RolloutFits(r, m)' /\ rollout_at[r] \in Place(m)
         /\ rollout_at[r].step \in 1 .. RolloutSteps(m)
         /\ RolloutAt(r, m) = rollout_at[r]
         /\ RolloutAt(r, m)' = After(rollout_at[r], 1, RolloutSteps(m))
         /\ \A s \in RolloutRanks \ {r} : UNCHANGED <<serving[s], rollout_at[s]>>
         /\ serving' = [s \in RolloutRanks |-> serving'[s]]
         /\ rollout_at' = [s \in RolloutRanks |-> rollout_at'[s]]
<1> DEFINE next == After(rollout_at[r], 1, RolloutSteps(m))
<1>1. rollout_at[r] \in Place(m) /\ rollout_at[r].step \in 1 .. RolloutSteps(m) /\ policy[r] = version
  BY DEF RolloutFits, Modes
<1>2. /\ next.epoch <= Epochs(m) => next \in Place(m) /\ next.step \in 1 .. RolloutSteps(m)
      /\ next.epoch > Epochs(m) => next = End(m, 1)
      /\ next.epoch \in Nat
  BY <1>1, RolloutLoopsOn
<1>3. /\ rollout_at' = [rollout_at EXCEPT ![r] = IF next.epoch > Epochs(m) THEN Start(1) ELSE next]
      /\ serving' = [serving EXCEPT ![r] =
           IF next.epoch <= Epochs(m) THEN m ELSE IF m = "train" THEN "send" ELSE "none"]
  BY DEF RolloutGoesOn
<1>4. Epochs(m) \in Nat /\ 1 \in Stages /\ (m = "train" \/ m = "eval")
  BY Loops DEF Modes
<1> HIDE DEF next
<1>5. /\ rollout_at'[r] = IF next.epoch > Epochs(m) THEN Start(1) ELSE next
      /\ serving'[r] = IF next.epoch <= Epochs(m) THEN m ELSE IF m = "train" THEN "send" ELSE "none"
  BY <1>3 DEF PerRank
<1>6. /\ \A s \in RolloutRanks \ {r} : UNCHANGED <<serving[s], rollout_at[s]>>
      /\ serving' = [s \in RolloutRanks |-> serving'[s]]
      /\ rollout_at' = [s \in RolloutRanks |-> rollout_at'[s]]
  BY <1>3 DEF PerRank
<1>7. UNCHANGED <<Place(m), RolloutSteps(m), Stages, Start(1), End(m, 1)>>
  BY DEF Place, RolloutSteps, Stages, Start, End, Epochs
<1>8. RolloutAt(r, m) = rollout_at[r]
  BY DEF RolloutAt
<1>9. CASE next.epoch > Epochs(m)
  <2>1. ~(next.epoch <= Epochs(m))
    BY <1>2, <1>4, <1>9
  <2>2. rollout_at'[r] = Start(1) /\ serving'[r] = IF m = "train" THEN "send" ELSE "none"
    BY <1>5, <1>9, <2>1
  <2>3. RolloutAt(r, m)' = End(m, 1)
    BY <1>4, <1>7, <2>2 DEF RolloutAt
  <2>4. Start(1) = [Start(1) EXCEPT !.stage = 1]
    BY DEF Start
  <2>5. RolloutFits(r, m)'
    BY <1>1, <1>4, <1>7, <2>2, <2>4 DEF RolloutFits
  <2> QED
    BY <1>1, <1>2, <1>6, <1>8, <1>9, <2>3, <2>5 DEF next
<1>10. CASE ~(next.epoch > Epochs(m))
  <2>1. next.epoch <= Epochs(m)
    BY <1>2, <1>4, <1>10
  <2>2. rollout_at'[r] = next /\ serving'[r] = m
    BY <1>5, <1>10, <2>1
  <2>3. RolloutAt(r, m)' = next
    BY <2>2 DEF RolloutAt
  <2>4. RolloutFits(r, m)'
    BY <1>1, <1>2, <1>7, <2>1, <2>2 DEF RolloutFits
  <2> QED
    BY <1>1, <1>6, <1>8, <2>3, <2>4 DEF next
<1> QED
  BY <1>9, <1>10

(* The observation a rollout rank takes is the one its loops are at. *)
LEMMA HeadFits ==
  ASSUME NEW m \in Modes, NEW e, NEW r, ObservationsFlow(e, r, m), env_channel[<<r, m>>] # <<>>
  PROVE  /\ Head(env_channel[<<r, m>>]) \in Observation(m)
         /\ Head(env_channel[<<r, m>>]).at = Shown(RolloutAt(r, m))
<1> DEFINE q == env_channel[<<r, m>>]
           a == Shown(RolloutAt(r, m))
           b == ToTell(EnvAt(e, m), m)
<1>1. q \in Seq(Observation(m)) /\ Linked(Along(AtOf(m), q), a, b, LastTold(m)) /\ q # <<>>
  BY DEF ObservationsFlow
<1>2. AtOf(m) \in [Observation(m) -> Place(m)]
  BY DEF AtOf, Observation
<1> DEFINE F == AtOf(m)
           S == Observation(m)
           last == LastTold(m)
<1> HIDE DEF q, a, b
<1>3. q \in Seq(S) /\ q # <<>> /\ Linked(Along(F, q), a, b, last)
  BY <1>1, <1>2
<1> HIDE DEF F, S, last
<1>4. Head(q) \in S /\ F[Head(q)] = a
  BY <1>3, QueueLeft
<1>5. F[Head(q)] = Head(q).at
  BY <1>4 DEF F, S, AtOf
<1> QED
  BY <1>4, <1>5 DEF q, a, S

(* The action an environment rank finds is for the observation it waits on. *)
LEMMA ReplyFits ==
  ASSUME NEW m \in Modes, NEW e, NEW r, RepliesFlow(e, r, m), rollout_channel[<<r, m>>] # <<>>
  PROVE  /\ Head(rollout_channel[<<r, m>>]) \in Reply(m)
         /\ Head(rollout_channel[<<r, m>>]).obs.at = Awaited(EnvAt(e, m))
<1> DEFINE q == rollout_channel[<<r, m>>]
           a == Awaited(EnvAt(e, m))
           b == ToAnswer(RolloutAt(r, m), m)
<1>1. q \in Seq(Reply(m)) /\ Linked(Along(AnsweredAt(m), q), a, b, Chunks(m) - 1) /\ q # <<>>
  BY DEF RepliesFlow
<1>2. AnsweredAt(m) \in [Reply(m) -> Place(m)]
  BY DEF AnsweredAt, Reply, Observation
<1> DEFINE F == AnsweredAt(m)
           S == Reply(m)
           last == Chunks(m) - 1
<1> HIDE DEF q, a, b
<1>3. q \in Seq(S) /\ q # <<>> /\ Linked(Along(F, q), a, b, last)
  BY <1>1, <1>2
<1> HIDE DEF F, S, last
<1>4. Head(q) \in S /\ F[Head(q)] = a
  BY <1>3, QueueLeft
<1>5. F[Head(q)] = Head(q).obs.at
  BY <1>4 DEF F, S, AnsweredAt
<1> QED
  BY <1>4, <1>5 DEF q, a, S

(* Taking an observation moves the flow of observations on; answering it    *)
(* extends the flow of actions.                                             *)
LEMMA HearFlows ==
  ASSUME NEW m \in Modes, NEW e \in EnvRanks, NEW r \in RolloutRanks, PerRank, RolloutFits(r, m),
         Hears(r, m), RolloutGoesOn(r, m, RolloutSteps(m)),
         UNCHANGED <<policy, version, global_step, env_calls, env_at>>,
         ObservationsFlow(e, r, m)
  PROVE  ObservationsFlow(e, r, m)'
<1> DEFINE at == rollout_at[r]
           q  == env_channel[<<r, m>>]
           b  == ToTell(EnvAt(e, m), m)
<1>1. /\ at \in Place(m) /\ at.step \in 1 .. RolloutSteps(m) /\ RolloutAt(r, m) = at
      /\ RolloutAt(r, m)' = After(at, 1, RolloutSteps(m))
  BY RolloutMoves DEF Hears
<1>2. Shown(RolloutAt(r, m)') = After(Shown(at), 0, LastTold(m))
  BY <1>1, RolloutTurn
<1>3. /\ q \in Seq(Observation(m)) /\ q # <<>>
      /\ Linked(Along(AtOf(m), q), Shown(at), b, LastTold(m))
  BY <1>1 DEF ObservationsFlow, Hears
<1>4. env_channel'[<<r, m>>] = Tail(q)
  BY DEF Hears, PerRank
<1>5. AtOf(m) \in [Observation(m) -> Place(m)]
  BY DEF AtOf, Observation
<1>6. UNCHANGED <<Observation(m), AtOf(m), EnvAt(e, m), LastTold(m)>>
  BY DEF Observation, AtOf, EnvAt, LastTold, Place, Epochs, Stages, End
<1>7. ToTell(EnvAt(e, m), m)' = b /\ Shown(RolloutAt(r, m))' = Shown(RolloutAt(r, m)')
  BY <1>6 DEF ToTell, NextEpoch, Chunks, Shown
<1> DEFINE F == AtOf(m)
           S == Observation(m)
           a == Shown(at)
           last == LastTold(m)
<1> HIDE DEF at, q, b
<1>8. q \in Seq(S) /\ q # <<>> /\ Linked(Along(F, q), a, b, last)
  BY <1>3, <1>5
<1> HIDE DEF F, S, a, last
<1>9. /\ Tail(q) \in Seq(S) /\ Linked(Along(F, Tail(q)), After(a, 0, last), b, last)
      /\ Head(q) \in S /\ F[Head(q)] = a
  BY <1>8, QueueLeft
<1> USE DEF F, S, a, last
<1>10. Along(AtOf(m), env_channel[<<r, m>>])' = Along(AtOf(m), Tail(q))
  <2>1. Along(AtOf(m), env_channel[<<r, m>>])' = Along(AtOf(m)', env_channel'[<<r, m>>])
    BY DEF Along
  <2> QED
    BY <1>4, <1>6, <2>1
<1>11. env_channel'[<<r, m>>] \in Seq(Observation(m))'
  BY <1>4, <1>6, <1>9
<1> QED
  BY <1>2, <1>6, <1>7, <1>9, <1>10, <1>11 DEF ObservationsFlow, Linked

LEMMA AnswerFlows ==
  ASSUME NEW m \in Modes, NEW e \in EnvRanks, NEW r \in RolloutRanks, PerRank, RolloutFits(r, m),
         Hears(r, m), RolloutGoesOn(r, m, RolloutSteps(m)),
         UNCHANGED <<policy, version, global_step, env_calls, env_at>>,
         ObservationsFlow(e, r, m), RepliesFlow(e, r, m),
         rollout_at[r].step <= Chunks(m),
         Answer(r, m, [obs |-> Head(env_channel[<<r, m>>]), policy |-> policy[r]])
  PROVE  RepliesFlow(e, r, m)'
<1> DEFINE at == rollout_at[r]
           q  == rollout_channel[<<r, m>>]
           x  == [obs |-> Head(env_channel[<<r, m>>]), policy |-> policy[r]]
           a  == Awaited(EnvAt(e, m))
<1>1. /\ at \in Place(m) /\ at.step \in 1 .. RolloutSteps(m) /\ RolloutAt(r, m) = at
      /\ RolloutAt(r, m)' = After(at, 1, RolloutSteps(m))
  BY RolloutMoves DEF Hears
<1>2. /\ Shown(at) \in Place(m) /\ ToAnswer(at, m) = Shown(at)
      /\ ToAnswer(RolloutAt(r, m)', m) = After(Shown(at), 0, Chunks(m) - 1)
  BY <1>1, RolloutTurn
<1>3. /\ q \in Seq(Reply(m))
      /\ Linked(Along(AnsweredAt(m), q), a, Shown(at), Chunks(m) - 1)
  BY <1>1, <1>2 DEF RepliesFlow
<1>4. rollout_channel'[<<r, m>>] = Append(q, x)
  BY DEF Answer, PerRank
<1>5. AnsweredAt(m) \in [Reply(m) -> Place(m)]
  BY DEF AnsweredAt, Reply, Observation
<1>6. x \in Reply(m) /\ AnsweredAt(m)[x] = Shown(at)
  <2>1. Head(env_channel[<<r, m>>]) \in Observation(m) /\ Head(env_channel[<<r, m>>]).at = Shown(at)
    BY <1>1, HeadFits DEF Hears
  <2>2. policy[r] = version
    BY DEF RolloutFits
  <2>3. x \in Reply(m) /\ x.obs.at = Shown(at)
    BY <2>1, <2>2 DEF Reply
  <2> QED
    BY <2>3 DEF AnsweredAt
<1>7. UNCHANGED <<Reply(m), AnsweredAt(m), EnvAt(e, m), Chunks(m)>>
  BY DEF Reply, Observation, AnsweredAt, EnvAt, Chunks, Place, Epochs, Stages, End
<1>8. Awaited(EnvAt(e, m))' = a /\ ToAnswer(RolloutAt(r, m), m)' = ToAnswer(RolloutAt(r, m)', m)
  BY <1>7 DEF ToAnswer, NextEpoch, Shown, Awaited, Chunks
<1> DEFINE F == AnsweredAt(m)
           S == Reply(m)
           last == Chunks(m) - 1
<1> HIDE DEF at, q, x, a
<1>9. /\ q \in Seq(S) /\ x \in S /\ F[x] = Shown(at)
      /\ Linked(Along(F, q), a, F[x], last)
  BY <1>3, <1>5, <1>6
<1> HIDE DEF F, S, last
<1>10. Append(q, x) \in Seq(S) /\ Linked(Along(F, Append(q, x)), a, After(F[x], 0, last), last)
  BY <1>9, QueueJoined
<1> USE DEF F, S, last
<1>11. Along(AnsweredAt(m), rollout_channel[<<r, m>>])' = Along(AnsweredAt(m), Append(q, x))
  <2>1. Along(AnsweredAt(m), rollout_channel[<<r, m>>])' =
          Along(AnsweredAt(m)', rollout_channel'[<<r, m>>])
    BY DEF Along
  <2> QED
    BY <1>4, <1>7, <2>1
<1>12. rollout_channel'[<<r, m>>] \in Seq(Reply(m))'
  BY <1>4, <1>7, <1>10
<1> QED
  BY <1>2, <1>7, <1>8, <1>9, <1>10, <1>11, <1>12 DEF RepliesFlow, Linked

(* The last observations of an epoch are not answered. *)
LEMMA NotAnsweringFlows ==
  ASSUME NEW m \in Modes, NEW e \in EnvRanks, NEW r \in RolloutRanks, PerRank, RolloutFits(r, m),
         Hears(r, m), RolloutGoesOn(r, m, RolloutSteps(m)),
         UNCHANGED <<policy, version, global_step, env_calls, env_at>>,
         RepliesFlow(e, r, m), ~(rollout_at[r].step <= Chunks(m)), UNCHANGED rollout_channel
  PROVE  RepliesFlow(e, r, m)'
<1> DEFINE at == rollout_at[r]
<1>1. /\ at \in Place(m) /\ at.step \in 1 .. RolloutSteps(m) /\ RolloutAt(r, m) = at
      /\ RolloutAt(r, m)' = After(at, 1, RolloutSteps(m))
  BY RolloutMoves DEF Hears
<1>2. ToAnswer(RolloutAt(r, m)', m) = ToAnswer(RolloutAt(r, m), m)
  BY <1>1, RolloutTurn
<1>3. UNCHANGED <<Reply(m), AnsweredAt(m), EnvAt(e, m), Chunks(m)>>
  BY DEF Reply, Observation, AnsweredAt, EnvAt, Chunks, Place, Epochs, Stages, End
<1>4. /\ Along(AnsweredAt(m), rollout_channel[<<r, m>>])' =
           Along(AnsweredAt(m), rollout_channel[<<r, m>>])
      /\ Awaited(EnvAt(e, m))' = Awaited(EnvAt(e, m))
      /\ ToAnswer(RolloutAt(r, m), m)' = ToAnswer(RolloutAt(r, m)', m)
  BY <1>3 DEF Along, Awaited, ToAnswer, NextEpoch, Chunks, Shown
<1> QED
  BY <1>2, <1>3, <1>4 DEF RepliesFlow, Linked

-----------------------------------------------------------------------------
(* What leaves a pair of ranks and its channels alone keeps its flows.      *)

LEMMA SameFlows ==
  ASSUME NEW m \in Modes, NEW e, NEW r, ObservationsFlow(e, r, m), RepliesFlow(e, r, m),
         UNCHANGED <<global_step, version, EnvAt(e, m), RolloutAt(r, m),
                     env_channel[<<r, m>>], rollout_channel[<<r, m>>]>>
  PROVE  ObservationsFlow(e, r, m)' /\ RepliesFlow(e, r, m)'
<1>1. UNCHANGED <<Observation(m), Reply(m), AtOf(m), AnsweredAt(m), LastTold(m), Chunks(m)>>
  BY DEF Observation, Reply, AtOf, AnsweredAt, LastTold, Chunks, Place, Epochs, Stages
<1>2. /\ Along(AtOf(m), env_channel[<<r, m>>])' = Along(AtOf(m), env_channel[<<r, m>>])
      /\ ToTell(EnvAt(e, m), m)' = ToTell(EnvAt(e, m), m)
      /\ Shown(RolloutAt(r, m))' = Shown(RolloutAt(r, m))
  BY <1>1 DEF Along, ToTell, NextEpoch, Chunks, Shown
<1>3. /\ Along(AnsweredAt(m), rollout_channel[<<r, m>>])' =
           Along(AnsweredAt(m), rollout_channel[<<r, m>>])
      /\ Awaited(EnvAt(e, m))' = Awaited(EnvAt(e, m))
      /\ ToAnswer(RolloutAt(r, m), m)' = ToAnswer(RolloutAt(r, m), m)
  BY <1>1 DEF Along, Awaited, ToAnswer, NextEpoch, Chunks, Shown
<1>4. ObservationsFlow(e, r, m)'
  BY <1>1, <1>2 DEF ObservationsFlow, Linked
<1>5. RepliesFlow(e, r, m)'
  BY <1>1, <1>3 DEF RepliesFlow, Linked
<1> QED
  BY <1>4, <1>5

LEMMA SameFits ==
  ASSUME NEW m \in Modes, NEW e, NEW r, UNCHANGED <<global_step, version>>
  PROVE  /\ EnvFits(e, m) /\ UNCHANGED <<env_calls[e], env_at[e]>> => EnvFits(e, m)'
         /\ RolloutFits(r, m) /\ UNCHANGED <<policy[r], serving[r], rollout_at[r]>>
              => RolloutFits(r, m)'
<1>1. UNCHANGED <<Place(m), Chunks(m), RolloutSteps(m), Stages, Start(0), Start(1)>>
  BY DEF Place, Chunks, RolloutSteps, Stages, Start, Epochs
<1>2. ASSUME EnvFits(e, m), UNCHANGED <<env_calls[e], env_at[e]>> PROVE EnvFits(e, m)'
  BY <1>1, <1>2 DEF EnvFits
<1>3. ASSUME RolloutFits(r, m), UNCHANGED <<policy[r], serving[r], rollout_at[r]>>
      PROVE  RolloutFits(r, m)'
  BY <1>1, <1>3 DEF RolloutFits
<1> QED
  BY <1>2, <1>3

-----------------------------------------------------------------------------
(* One step of an environment rank. *)

LEMMA EnvKeepsCalls ==
  ASSUME NEW m \in Modes, NEW e \in EnvRanks, PerRank, CallsFit(m),
         SendInitial(e, m) \/ Interact(e, m)
  PROVE  PerRank' /\ CallsFit(m)'
         /\ \A q \in RolloutRanks \X Modes :
              q[2] # m => UNCHANGED <<env_channel[q], rollout_channel[q]>>
<1>1. /\ EnvRuns(e, m) /\ EnvGoesOn(e, m) /\ EnvFits(e, m)
      /\ UNCHANGED <<pc, global_step, version, unsynced, policy, serving, rollout_at>>
  BY DEF SendInitial, Interact, CallsFit, runner, rollouts
<1>2. /\ EnvFits(e, m)' /\ env_at[e] \in Place(m) /\ env_at[e].step \in Nat
      /\ \A f \in EnvRanks \ {e} : UNCHANGED <<env_calls[f], env_at[f]>>
      /\ env_calls' = [f \in EnvRanks |-> env_calls'[f]]
      /\ env_at' = [f \in EnvRanks |-> env_at'[f]]
  BY <1>1, EnvMoves, PlaceFields
<1>3. ASSUME NEW q \in RolloutRanks \X Modes, ~(q[1] \in Gathered(e) /\ q[2] = m)
      PROVE  UNCHANGED <<env_channel[q], rollout_channel[q]>>
  BY <1>3 DEF SendInitial, Interact, Tell, Consume
<1>4. PerRank'
  <2>1. env_channel' = [q \in RolloutRanks \X Modes |-> env_channel'[q]]
    BY DEF SendInitial, Interact, Tell, PerRank
  <2>2. rollout_channel' = [q \in RolloutRanks \X Modes |-> rollout_channel'[q]]
    BY DEF SendInitial, Interact, Consume, PerRank
  <2> QED
    BY <1>1, <1>2, <2>1, <2>2 DEF PerRank, EnvRanks, RolloutRanks, Modes
<1>5. ASSUME NEW r \in Gathered(e)
      PROVE  ObservationsFlow(e, r, m)' /\ RepliesFlow(e, r, m)'
  <2>1. ObservationsFlow(e, r, m) /\ RepliesFlow(e, r, m)
    BY <1>5 DEF CallsFit
  <2>2. CASE SendInitial(e, m)
    <3>1. /\ env_at[e].step = 0 /\ Tell(e, m, env_at[e]) /\ UNCHANGED rollout_channel
          /\ ~(m = "eval" /\ env_at[e].step = Chunks(m))
      BY <2>2, Loops DEF SendInitial
    <3> QED
      BY <1>1, <1>5, <2>1, <3>1, TellFlows, InitialFlows
  <2>3. CASE Interact(e, m)
    <3>1. env_at[e].step # 0 /\ Consume(e, m)
      BY <1>2, <2>3 DEF Interact
    <3>2. RepliesFlow(e, r, m)'
      BY <1>1, <1>5, <2>1, <3>1, ConsumeFlows
    <3>3. CASE m = "eval" /\ env_at[e].step = Chunks(m)
      <4>1. UNCHANGED env_channel
        BY <2>3, <3>3 DEF Interact, Chunks
      <4> QED
        BY <1>1, <1>5, <2>1, <3>2, <3>3, <4>1, NotTellingFlows
    <3>4. CASE ~(m = "eval" /\ env_at[e].step = Chunks(m))
      <4>1. Tell(e, m, env_at[e])
        BY <2>3, <3>4 DEF Interact, Chunks
      <4> QED
        BY <1>1, <1>5, <2>1, <3>2, <3>4, <4>1, TellFlows
    <3> QED
      BY <3>3, <3>4
  <2> QED
    BY <2>2, <2>3
<1>6. ASSUME NEW f \in EnvRanks \ {e}, NEW r \in Gathered(f), r \notin Gathered(e)
      PROVE  ObservationsFlow(f, r, m)' /\ RepliesFlow(f, r, m)'
  <2>1. <<r, m>> \in RolloutRanks \X Modes
    BY GatheredRanks
  <2>2. UNCHANGED <<env_channel[<<r, m>>], rollout_channel[<<r, m>>]>>
    BY <1>3, <1>6, <2>1
  <2>3. UNCHANGED <<EnvAt(f, m), RolloutAt(r, m)>>
    <3>1. UNCHANGED <<End(m, 0), End(m, 1)>>
      BY DEF End, Epochs
    <3> QED
      BY <1>1, <1>2, <3>1 DEF EnvAt, RolloutAt
  <2>4. ObservationsFlow(f, r, m) /\ RepliesFlow(f, r, m)
    BY DEF CallsFit
  <2> QED
    BY <1>1, <2>2, <2>3, <2>4, SameFlows
<1>7. ASSUME NEW f \in EnvRanks \ {e}, NEW r \in Gathered(f) PROVE r \notin Gathered(e)
  BY ServesOne
<1>8. \A f \in EnvRanks : EnvFits(f, m)'
  BY <1>1, <1>2, SameFits DEF CallsFit
<1>9. \A r \in RolloutRanks : RolloutFits(r, m)'
  BY <1>1, SameFits DEF CallsFit
<1>10. \A f \in EnvRanks : \A r \in Gathered(f) : ObservationsFlow(f, r, m)' /\ RepliesFlow(f, r, m)'
  BY <1>5, <1>6, <1>7
<1>11. UNCHANGED <<EnvRanks, RolloutRanks>> /\ \A f : UNCHANGED Gathered(f)
  BY DEF EnvRanks, RolloutRanks, Gathered
<1>12. CallsFit(m)'
  BY <1>8, <1>9, <1>10, <1>11 DEF CallsFit
<1> QED
  BY <1>3, <1>4, <1>12

-----------------------------------------------------------------------------
(* One step of a rollout rank. *)

LEMMA RolloutKeepsCalls ==
  ASSUME NEW m \in Modes, NEW r \in RolloutRanks, PerRank, CallsFit(m),
         Hears(r, m), RolloutGoesOn(r, m, RolloutSteps(m)),
         UNCHANGED <<global_step, version, policy, env_calls, env_at>>,
         \/ /\ rollout_at[r].step <= Chunks(m)
            /\ Answer(r, m, [obs |-> Head(env_channel[<<r, m>>]), policy |-> policy[r]])
         \/ ~(rollout_at[r].step <= Chunks(m)) /\ UNCHANGED rollout_channel
  PROVE  PerRank' /\ CallsFit(m)'
         /\ \A q \in RolloutRanks \X Modes :
              q[2] # m => UNCHANGED <<env_channel[q], rollout_channel[q]>>
<1>1. RolloutFits(r, m) /\ serving[r] = m
  BY DEF CallsFit, Hears
<1>2. /\ RolloutFits(r, m)' /\ rollout_at[r] \in Place(m)
      /\ \A s \in RolloutRanks \ {r} : UNCHANGED <<serving[s], rollout_at[s]>>
      /\ serving' = [s \in RolloutRanks |-> serving'[s]]
      /\ rollout_at' = [s \in RolloutRanks |-> rollout_at'[s]]
  BY <1>1, RolloutMoves
<1>3. ASSUME NEW q \in RolloutRanks \X Modes, q # <<r, m>>
      PROVE  UNCHANGED <<env_channel[q], rollout_channel[q]>>
  BY <1>3 DEF Hears, Answer, PerRank
<1>4. PerRank'
  <2>1. env_channel' = [q \in RolloutRanks \X Modes |-> env_channel'[q]]
    BY DEF Hears, PerRank
  <2>2. rollout_channel' = [q \in RolloutRanks \X Modes |-> rollout_channel'[q]]
    BY DEF Answer, PerRank
  <2> QED
    BY <1>2, <2>1, <2>2 DEF PerRank, EnvRanks, RolloutRanks, Modes
<1>5. ASSUME NEW e \in EnvRanks, r \in Gathered(e)
      PROVE  ObservationsFlow(e, r, m)' /\ RepliesFlow(e, r, m)'
  <2>1. ObservationsFlow(e, r, m) /\ RepliesFlow(e, r, m)
    BY <1>5 DEF CallsFit
  <2>2. ObservationsFlow(e, r, m)'
    BY <1>1, <2>1, HearFlows
  <2>3. RepliesFlow(e, r, m)'
    BY <1>1, <2>1, AnswerFlows, NotAnsweringFlows
  <2> QED
    BY <2>2, <2>3
<1>6. ASSUME NEW e \in EnvRanks, NEW s \in Gathered(e), s # r
      PROVE  ObservationsFlow(e, s, m)' /\ RepliesFlow(e, s, m)'
  <2>1. <<s, m>> \in RolloutRanks \X Modes /\ <<s, m>> # <<r, m>> /\ s \in RolloutRanks
    BY <1>6, GatheredRanks
  <2>2. UNCHANGED <<env_channel[<<s, m>>], rollout_channel[<<s, m>>]>>
    BY <1>3, <2>1
  <2>3. UNCHANGED <<EnvAt(e, m), RolloutAt(s, m)>>
    <3>1. UNCHANGED <<End(m, 0), End(m, 1)>>
      BY DEF End, Epochs
    <3> QED
      BY <1>2, <1>6, <2>1, <3>1 DEF EnvAt, RolloutAt
  <2>4. ObservationsFlow(e, s, m) /\ RepliesFlow(e, s, m)
    BY DEF CallsFit
  <2> QED
    BY <2>2, <2>3, <2>4, SameFlows
<1>7. \A e \in EnvRanks : EnvFits(e, m)'
  BY SameFits DEF CallsFit
<1>8. \A s \in RolloutRanks : RolloutFits(s, m)'
  BY <1>2, SameFits DEF CallsFit
<1>9. \A e \in EnvRanks : \A s \in Gathered(e) : ObservationsFlow(e, s, m)' /\ RepliesFlow(e, s, m)'
  BY <1>5, <1>6
<1>10. UNCHANGED <<EnvRanks, RolloutRanks>> /\ \A e : UNCHANGED Gathered(e)
  BY DEF EnvRanks, RolloutRanks, Gathered
<1>11. CallsFit(m)'
  BY <1>7, <1>8, <1>9, <1>10 DEF CallsFit
<1>12. ASSUME NEW q \in RolloutRanks \X Modes, q[2] # m PROVE q # <<r, m>>
  BY <1>12
<1> QED
  BY <1>3, <1>4, <1>11, <1>12

(* Sending its trajectories a rollout rank takes part in no exchange. *)
LEMMA SendingKeepsCalls ==
  ASSUME NEW r \in RolloutRanks, PerRank, CallsFit("train"), SendRolloutBatch(r)
  PROVE  PerRank' /\ CallsFit("train")' /\ UNCHANGED channels
<1>1. /\ UNCHANGED <<global_step, version, policy, env_calls, env_at, env_channel, rollout_channel>>
      /\ serving[r] = "send" /\ "train" \in Modes
  BY DEF SendRolloutBatch, runner, envs, channels, Modes
<1>2. PICK s \in Stages : rollout_at[r] = [Start(1) EXCEPT !.stage = s]
  BY <1>1 DEF CallsFit, RolloutFits
<1>3. rollout_at[r].stage = s /\ s \in Nat /\ s >= 1 /\ s <= stage_num
  BY <1>2, StageAssumption DEF Start, Stages
<1> DEFINE t == IF s = stage_num THEN 1 ELSE s + 1
<1>4. /\ rollout_at' = [rollout_at EXCEPT ![r].stage = t]
      /\ serving' = [serving EXCEPT ![r] = IF s = stage_num THEN "none" ELSE "send"]
  BY <1>3 DEF SendRolloutBatch
<1>5. /\ rollout_at'[r] = [rollout_at[r] EXCEPT !.stage = t]
      /\ serving'[r] = IF s = stage_num THEN "none" ELSE "send"
      /\ \A x \in RolloutRanks \ {r} : UNCHANGED <<serving[x], rollout_at[x]>>
      /\ serving' = [x \in RolloutRanks |-> serving'[x]]
      /\ rollout_at' = [x \in RolloutRanks |-> rollout_at'[x]]
  BY <1>4 DEF PerRank
<1>6. rollout_at'[r] = [Start(1) EXCEPT !.stage = t]
  BY <1>2, <1>5 DEF Start
<1>7. t \in Stages /\ (s = stage_num => [Start(1) EXCEPT !.stage = t] = Start(1))
  BY <1>3, StageAssumption DEF Stages, Start
<1> HIDE DEF t
<1>8. RolloutFits(r, "train")'
  <2>1. policy[r] = version
    BY DEF CallsFit, RolloutFits
  <2>2. UNCHANGED <<Stages, Start(1)>>
    BY DEF Stages, Start
  <2> QED
    BY <1>1, <1>5, <1>6, <1>7, <2>1, <2>2 DEF RolloutFits
<1>9. PerRank'
  BY <1>1, <1>5 DEF PerRank, EnvRanks, RolloutRanks, Modes
<1>10. \A e \in EnvRanks : EnvFits(e, "train")'
  BY <1>1, SameFits DEF CallsFit
<1>11. \A x \in RolloutRanks : RolloutFits(x, "train")'
  BY <1>1, <1>5, <1>8, SameFits DEF CallsFit
<1>12. ASSUME NEW e \in EnvRanks, NEW x \in Gathered(e)
       PROVE  ObservationsFlow(e, x, "train")' /\ RepliesFlow(e, x, "train")'
  <2>1. x \in RolloutRanks
    BY GatheredRanks
  <2>2. UNCHANGED <<EnvAt(e, "train"), RolloutAt(x, "train")>>
    <3>1. UNCHANGED <<End("train", 0), End("train", 1)>>
      BY DEF End, Epochs
    <3> QED
      BY <1>1, <1>5, <2>1, <3>1 DEF EnvAt, RolloutAt
  <2> QED
    BY <1>1, <2>2, SameFlows DEF CallsFit
<1>13. UNCHANGED <<EnvRanks, RolloutRanks>> /\ \A e : UNCHANGED Gathered(e)
  BY DEF EnvRanks, RolloutRanks, Gathered
<1>14. CallsFit("train")'
  BY <1>10, <1>11, <1>12, <1>13 DEF CallsFit
<1> QED
  BY <1>1, <1>9, <1>14 DEF channels

-----------------------------------------------------------------------------
(* Calls begin and end. *)

(* Calls of one mode run at a time. *)
LEMMA OneRuns ==
  /\ Modes = {"train", "eval"}
  /\ Running("train") <=> pc = "generate"
  /\ Running("eval") <=> pc = "evaluate"
  /\ \A m, n \in Modes : Running(m) /\ Running(n) => m = n
  BY DEF Modes, Running

(* A call begins with empty channels and both sides at the start. *)
LEMMA CallsBegin ==
  ASSUME NEW m \in Modes, PerRank, NoneCalled, Quiet(m), \A r \in RolloutRanks : policy[r] = version,
         CallAll(m)
  PROVE  PerRank' /\ CallsFit(m)'
<1> DEFINE call == [mode |-> m, run |-> global_step]
<1>1. /\ UNCHANGED <<global_step, version, env_at, policy, rollout_at, env_channel, rollout_channel>>
      /\ env_calls' = [e \in EnvRanks |-> Append(env_calls[e], call)]
      /\ serving' = [r \in RolloutRanks |-> m]
  BY DEF CallAll, channels
<1>2. Epochs(m) \in Nat \ {0} /\ Chunks(m) \in Nat \ {0} /\ RolloutSteps(m) \in Nat \ {0} /\ 1 \in Stages
  BY Loops
<1>3. UNCHANGED <<Place(m), Chunks(m), RolloutSteps(m), Start(0), Start(1), Stages, EnvRanks,
                  RolloutRanks, call, LastTold(m)>>
      /\ \A e : UNCHANGED Gathered(e)
  BY <1>1 DEF Place, Chunks, RolloutSteps, Start, Stages, EnvRanks, RolloutRanks, Gathered, Epochs,
              LastTold
<1>4. /\ Start(0) \in Place(m) /\ Start(0).step <= Chunks(m)
      /\ Start(1) \in Place(m) /\ Start(1).step \in 1 .. RolloutSteps(m)
  BY <1>2 DEF Start, Place
<1>5. /\ Shown(Start(1)) = Start(0) /\ ToTell(Start(0), m) = Start(0)
      /\ Awaited(Start(0)) = Start(0) /\ ToAnswer(Start(1), m) = Start(0)
  BY <1>2 DEF Start, Shown, ToTell, Awaited, ToAnswer
<1>6. PerRank'
  BY <1>1 DEF PerRank, EnvRanks, RolloutRanks, Modes
<1>7. ASSUME NEW e \in EnvRanks
      PROVE  env_calls'[e] = <<call>> /\ env_at'[e] = Start(0) /\ EnvFits(e, m)' /\ EnvAt(e, m)' = Start(0)
  <2>1. env_calls[e] = <<>> /\ env_at'[e] = Start(0)
    BY <1>1, <1>7 DEF NoneCalled
  <2>2. env_calls'[e] = Append(<<>>, call)
    BY <1>1, <1>7, <2>1
  <2>3. Append(<<>>, call) = <<call>> /\ <<call>> # <<>>
    OBVIOUS
  <2>4. env_calls'[e] = <<call>> /\ env_calls'[e] # <<>>
    BY <2>2, <2>3, Zenon
  <2>5. EnvFits(e, m)'
    BY <1>3, <1>4, <2>1, <2>4 DEF EnvFits
  <2>6. EnvAt(e, m)' = Start(0)
    BY <2>1, <2>4 DEF EnvAt
  <2> QED
    BY <2>1, <2>4, <2>5, <2>6
<1>8. ASSUME NEW r \in RolloutRanks
      PROVE  RolloutFits(r, m)' /\ RolloutAt(r, m)' = Start(1)
  <2>1. policy'[r] = version' /\ serving'[r] = m /\ rollout_at'[r] = Start(1)
    BY <1>1, <1>8 DEF NoneCalled
  <2> QED
    BY <1>3, <1>4, <2>1 DEF RolloutFits, RolloutAt
<1>9. ASSUME NEW e \in EnvRanks, NEW r \in Gathered(e)
      PROVE  ObservationsFlow(e, r, m)' /\ RepliesFlow(e, r, m)'
  <2>1. r \in RolloutRanks
    BY GatheredRanks
  <2>2. env_channel'[<<r, m>>] = <<>> /\ rollout_channel'[<<r, m>>] = <<>>
    BY <1>1, <2>1 DEF Quiet
  <2>3. /\ Along(AtOf(m), env_channel[<<r, m>>])' = <<>>
        /\ Along(AnsweredAt(m), rollout_channel[<<r, m>>])' = <<>>
    BY <2>2 DEF Along
  <2>4. /\ Shown(RolloutAt(r, m))' = Start(0) /\ ToTell(EnvAt(e, m), m)' = Start(0)
        /\ Awaited(EnvAt(e, m))' = Start(0) /\ ToAnswer(RolloutAt(r, m), m)' = Start(0)
    <3>1. EnvAt(e, m)' = Start(0) /\ RolloutAt(r, m)' = Start(1)
      BY <1>7, <1>8, <2>1
    <3>2. /\ Shown(RolloutAt(r, m))' = Shown(RolloutAt(r, m)')
          /\ ToTell(EnvAt(e, m), m)' = ToTell(EnvAt(e, m)', m)
          /\ Awaited(EnvAt(e, m))' = Awaited(EnvAt(e, m)')
          /\ ToAnswer(RolloutAt(r, m), m)' = ToAnswer(RolloutAt(r, m)', m)
      BY DEF Shown, ToTell, Awaited, ToAnswer, NextEpoch, Chunks
    <3> QED
      BY <1>5, <3>1, <3>2
  <2>5. <<>> \in Seq(Observation(m)') /\ <<>> \in Seq(Reply(m)') /\ Len(<<>>) = 0
    OBVIOUS
  <2> QED
    BY <2>2, <2>3, <2>4, <2>5 DEF ObservationsFlow, RepliesFlow, Linked
<1>10. CallsFit(m)'
  BY <1>3, <1>7, <1>8, <1>9 DEF CallsFit
<1> QED
  BY <1>6, <1>10

(* When every rollout rank has ended its call, every environment rank has,  *)
(* and nothing is left in the channels: whatever was would be of an epoch   *)
(* after the last.                                                          *)
LEMMA CallsEnd ==
  ASSUME NEW m \in Modes, PerRank, CallsFit(m), \A r \in RolloutRanks : serving[r] = "none",
         m = "eval" => \A e \in EnvRanks : env_calls[e] = <<>>
  PROVE  NoneCalled /\ Quiet(m)
<1>1. /\ Epochs(m) \in Nat \ {0} /\ Chunks(m) \in Nat \ {0} /\ (m = "train" \/ m = "eval")
  BY Loops DEF Modes
<1>2. /\ End(m, 0).epoch = Epochs(m) + 1 /\ End(m, 1).step = 1 /\ End(m, 0).step = 0
      /\ Shown(End(m, 1)) = End(m, 0) /\ Awaited(End(m, 0)) = End(m, 0)
  BY DEF End, Shown, Awaited
<1>3. \A at \in Place(m) : at # End(m, 0)
  BY <1>1, <1>2 DEF Place
<1>4. ASSUME NEW e \in EnvRanks, NEW r \in Gathered(e)
      PROVE  env_channel[<<r, m>>] = <<>> /\ env_calls[e] = <<>> /\ rollout_channel[<<r, m>>] = <<>>
  <2>1. r \in RolloutRanks /\ ObservationsFlow(e, r, m) /\ RepliesFlow(e, r, m) /\ EnvFits(e, m)
    BY GatheredRanks DEF CallsFit
  <2>2. RolloutAt(r, m) = End(m, 1)
    BY <1>1, <2>1 DEF RolloutAt
  <2>3. env_channel[<<r, m>>] = <<>>
    <3> SUFFICES ASSUME env_channel[<<r, m>>] # <<>> PROVE FALSE
      OBVIOUS
    <3> DEFINE o == Head(env_channel[<<r, m>>])
    <3>1. o \in Observation(m) /\ o.at = End(m, 0)
      BY <1>2, <2>1, <2>2, HeadFits
    <3> QED
      BY <1>3, <3>1 DEF Observation
  <2>4. env_calls[e] = <<>>
    <3> SUFFICES ASSUME env_calls[e] # <<>> PROVE FALSE
      OBVIOUS
    <3>1. m = "train" /\ env_at[e] \in Place(m) /\ EnvAt(e, m) = env_at[e]
      BY <1>1, <2>1 DEF EnvFits, EnvAt
    <3>2. Along(AtOf(m), env_channel[<<r, m>>]) = <<>>
      BY <2>3 DEF Along
    <3>3. End(m, 0) = env_at[e]
      BY <1>2, <2>1, <2>2, <3>1, <3>2 DEF ObservationsFlow, Linked, ToTell
    <3> QED
      BY <1>3, <3>1, <3>3
  <2>5. rollout_channel[<<r, m>>] = <<>>
    <3> SUFFICES ASSUME rollout_channel[<<r, m>>] # <<>> PROVE FALSE
      OBVIOUS
    <3> DEFINE x == Head(rollout_channel[<<r, m>>])
    <3>1. EnvAt(e, m) = End(m, 0)
      BY <2>4 DEF EnvAt
    <3>2. x \in Reply(m) /\ x.obs.at = End(m, 0)
      BY <1>2, <2>1, <3>1, ReplyFits
    <3> QED
      BY <1>3, <3>2 DEF Reply, Observation
  <2> QED
    BY <2>3, <2>4, <2>5
<1>5. Quiet(m)
  BY <1>4, EveryRankServes DEF Quiet
<1>6. ASSUME NEW e \in EnvRanks PROVE env_calls[e] = <<>> /\ env_at[e] = Start(0)
  <2>1. env_calls[e] = <<>>
    BY <1>4, GatheredRanks
  <2> QED
    BY <2>1 DEF CallsFit, EnvFits
<1>7. ASSUME NEW r \in RolloutRanks PROVE serving[r] = "none" /\ rollout_at[r] = Start(1)
  BY <1>1 DEF CallsFit, RolloutFits
<1> QED
  BY <1>5, <1>6, <1>7 DEF NoneCalled

-----------------------------------------------------------------------------
(* Every step. *)

LEMMA LoopsInit == PipelineInit => LoopsFit
<1> SUFFICES ASSUME PipelineInit PROVE LoopsFit
  OBVIOUS
<1>1. PerRank
  BY DEF PipelineInit, PerRank, NoMessages
<1>2. NoneCalled
  BY DEF PipelineInit, NoneCalled
<1>3. \A m \in Modes : ~Running(m) /\ Quiet(m)
  BY DEF PipelineInit, Running, Quiet, NoMessages
<1>4. \A r \in RolloutRanks : r \in unsynced
  BY DEF PipelineInit
<1> QED
  BY <1>1, <1>2, <1>3, <1>4 DEF LoopsFit

(* A step that keeps the call of mode m, leaves the other channels alone    *)
(* and the runner where it is.                                              *)
LEMMA CallGoesOn ==
  ASSUME NEW m \in Modes, LoopsFit, Running(m), PerRank', CallsFit(m)', UNCHANGED pc,
         \A q \in RolloutRanks \X Modes :
           q[2] # m => UNCHANGED <<env_channel[q], rollout_channel[q]>>
  PROVE  LoopsFit'
<1>1. \A n \in Modes : UNCHANGED Running(n)
  BY DEF Running
<1>2. ASSUME NEW n \in Modes, ~Running(n) PROVE Quiet(n)'
  <2>1. n # m /\ Quiet(n)
    BY <1>2 DEF LoopsFit
  <2>2. ASSUME NEW r \in RolloutRanks
        PROVE  UNCHANGED <<env_channel[<<r, n>>], rollout_channel[<<r, n>>]>>
    BY <2>1
  <2> QED
    BY <2>1, <2>2 DEF Quiet, RolloutRanks
<1>3. \A n \in Modes : Running(n) => n = m
  BY OneRuns
<1>4. pc' \notin {"sync", "sync_eval"}
  BY OneRuns
<1>5. Modes' = Modes
  BY DEF Modes
<1>6. \A n \in Modes : (Running(n)' => CallsFit(n)') /\ (~Running(n)' => Quiet(n)')
  BY <1>1, <1>2, <1>3
<1> QED
  BY <1>1, <1>4, <1>5, <1>6 DEF LoopsFit

(* A step that leaves the workers and their channels alone. *)
LEMMA NobodyMoves ==
  ASSUME LoopsFit, (\A m \in Modes : ~Running(m)) /\ NoneCalled,
         UNCHANGED <<env_calls, env_at, policy, serving, rollout_at, env_channel, rollout_channel>>,
         pc' \notin {"generate", "evaluate"},
         pc' \in {"sync", "sync_eval"} => \A r \in RolloutRanks : r \in unsynced' \/ policy[r] = version'
  PROVE  LoopsFit'
<1>1. PerRank'
  BY DEF LoopsFit, PerRank, EnvRanks, RolloutRanks, Modes
<1>2. NoneCalled'
  BY DEF NoneCalled, EnvRanks, RolloutRanks, Start
<1>3. \A m \in Modes : ~Running(m)'
  BY DEF Running, Modes
<1>4. \A m \in Modes : Quiet(m)'
  BY DEF LoopsFit, Quiet, RolloutRanks
<1>5. pc' \in {"sync", "sync_eval"} => \A r \in RolloutRanks : r \in unsynced' \/ policy'[r] = version'
  OBVIOUS
<1>6. UNCHANGED <<Modes, RolloutRanks>>
  BY DEF Modes, RolloutRanks
<1> QED
  BY <1>1, <1>2, <1>3, <1>4, <1>5, <1>6 DEF LoopsFit

(* The mode of a call that an environment or a rollout rank is in.          *)
LEMMA EnvInMode ==
  ASSUME LoopsFit, NEW e \in EnvRanks, NEW m \in Modes, EnvRuns(e, m)
  PROVE  Running(m) /\ CallsFit(m)
<1>1. PICK n \in Modes : Running(n)
  BY DEF LoopsFit, NoneCalled, EnvRuns
<1>2. CallsFit(n)
  BY <1>1 DEF LoopsFit
<1>3. env_calls[e] = <<[mode |-> n, run |-> global_step]>>
  BY <1>2 DEF CallsFit, EnvFits, EnvRuns
<1>4. n = m
  BY <1>3 DEF EnvRuns
<1> QED
  BY <1>1, <1>2, <1>4

LEMMA RolloutInMode ==
  ASSUME LoopsFit, NEW r \in RolloutRanks, NEW m \in Modes,
         serving[r] = m \/ (serving[r] = "send" /\ m = "train")
  PROVE  Running(m) /\ CallsFit(m)
<1>1. PICK n \in Modes : Running(n)
  BY DEF LoopsFit, NoneCalled, Modes
<1>2. CallsFit(n)
  BY <1>1 DEF LoopsFit
<1>3. n = m
  BY <1>2 DEF CallsFit, RolloutFits, Modes
<1> QED
  BY <1>1, <1>2, <1>3

LEMMA LoopsStep == LoopsFit /\ [PipelineNext]_pipelineVars => LoopsFit'
<1> SUFFICES ASSUME LoopsFit, [PipelineNext]_pipelineVars
             PROVE  LoopsFit'
  OBVIOUS
<1>1. ASSUME NEW e \in EnvRanks, Env(e) PROVE LoopsFit'
  <2>1. PICK m \in Modes : SendInitial(e, m) \/ Interact(e, m)
    BY <1>1 DEF Env
  <2>2. EnvRuns(e, m) /\ UNCHANGED pc
    BY <2>1 DEF SendInitial, Interact, runner
  <2>3. Running(m) /\ CallsFit(m) /\ PerRank
    BY <2>2, EnvInMode DEF LoopsFit
  <2>4. PerRank' /\ CallsFit(m)'
        /\ \A q \in RolloutRanks \X Modes :
             q[2] # m => UNCHANGED <<env_channel[q], rollout_channel[q]>>
    BY <2>1, <2>3, EnvKeepsCalls
  <2> QED
    BY <2>2, <2>3, <2>4, CallGoesOn
<1>2. ASSUME NEW r \in RolloutRanks, Generate(r) \/ GenerateLast(r) PROVE LoopsFit'
  <2>1. /\ Hears(r, "train") /\ RolloutGoesOn(r, "train", RolloutSteps("train")) /\ "train" \in Modes
        /\ UNCHANGED <<pc, global_step, version, policy, env_calls, env_at>>
    BY <1>2 DEF Generate, GenerateLast, RolloutSteps, runner, envs, Modes
  <2>2. Running("train") /\ CallsFit("train") /\ PerRank
    BY <2>1, RolloutInMode DEF Hears, LoopsFit
  <2>3. \/ /\ rollout_at[r].step <= Chunks("train")
           /\ Answer(r, "train", [obs |-> Head(env_channel[<<r, "train">>]), policy |-> policy[r]])
        \/ ~(rollout_at[r].step <= Chunks("train")) /\ UNCHANGED rollout_channel
    <3>1. n_chunk_steps \in Nat /\ Chunks("train") = n_chunk_steps
      BY PipelineAssumption DEF Chunks
    <3>2. CASE Generate(r)
      BY <3>1, <3>2 DEF Generate
    <3>3. CASE GenerateLast(r)
      BY <3>1, <3>3 DEF GenerateLast
    <3> QED
      BY <1>2, <3>2, <3>3
  <2>4. PerRank' /\ CallsFit("train")'
        /\ \A q \in RolloutRanks \X Modes :
             q[2] # "train" => UNCHANGED <<env_channel[q], rollout_channel[q]>>
    BY <2>1, <2>2, <2>3, RolloutKeepsCalls
  <2> QED
    BY <2>1, <2>2, <2>4, CallGoesOn
<1>3. ASSUME NEW r \in RolloutRanks, Evaluate(r) PROVE LoopsFit'
  <2>1. /\ Hears(r, "eval") /\ RolloutGoesOn(r, "eval", RolloutSteps("eval")) /\ "eval" \in Modes
        /\ UNCHANGED <<pc, global_step, version, policy, env_calls, env_at>>
    BY <1>3 DEF Evaluate, RolloutSteps, runner, envs, Modes
  <2>2. Running("eval") /\ CallsFit("eval") /\ PerRank
    BY <2>1, RolloutInMode DEF Hears, LoopsFit
  <2>3. /\ rollout_at[r].step <= Chunks("eval")
        /\ Answer(r, "eval", [obs |-> Head(env_channel[<<r, "eval">>]), policy |-> policy[r]])
    <3>1. RolloutFits(r, "eval") /\ serving[r] = "eval"
      BY <2>1, <2>2 DEF CallsFit, Hears
    <3>2. rollout_at[r].step \in 1 .. n_eval_chunk_steps /\ Chunks("eval") = n_eval_chunk_steps
      BY <3>1 DEF RolloutFits, RolloutSteps, Chunks
    <3> QED
      BY <1>3, <3>2, PipelineAssumption DEF Evaluate
  <2>4. PerRank' /\ CallsFit("eval")'
        /\ \A q \in RolloutRanks \X Modes :
             q[2] # "eval" => UNCHANGED <<env_channel[q], rollout_channel[q]>>
    BY <2>1, <2>2, <2>3, RolloutKeepsCalls
  <2> QED
    BY <2>1, <2>2, <2>4, CallGoesOn
<1>4. ASSUME NEW r \in RolloutRanks, SendRolloutBatch(r) PROVE LoopsFit'
  <2>1. serving[r] = "send" /\ UNCHANGED pc /\ "train" \in Modes
    BY <1>4 DEF SendRolloutBatch, runner, Modes
  <2>2. Running("train") /\ CallsFit("train") /\ PerRank
    BY <2>1, RolloutInMode DEF LoopsFit
  <2>3. PerRank' /\ CallsFit("train")' /\ UNCHANGED <<env_channel, rollout_channel>>
    BY <1>4, <2>2, SendingKeepsCalls DEF channels
  <2> QED
    BY <2>1, <2>2, <2>3, CallGoesOn
<1>5. ASSUME \A m \in Modes : ~Running(m) PROVE NoneCalled
  BY <1>5 DEF LoopsFit
<1>6. ASSUME NEW r \in RolloutRanks, sync_model_from_actor(r) PROVE LoopsFit'
  <2>1. /\ pc \in {"sync", "sync_eval"} /\ policy' = [policy EXCEPT ![r] = version]
        /\ unsynced' = unsynced \ {r}
        /\ UNCHANGED <<pc, version, global_step, env_calls, env_at, serving, rollout_at,
                       env_channel, rollout_channel>>
    BY <1>6 DEF sync_model_from_actor, envs, channels
  <2>2. \A m \in Modes : ~Running(m) /\ ~Running(m)'
    BY <2>1 DEF Running, Modes
  <2>3. NoneCalled /\ NoneCalled'
    BY <1>5, <2>1, <2>2 DEF NoneCalled, EnvRanks, RolloutRanks, Start
  <2>4. PerRank'
    BY <2>1 DEF LoopsFit, PerRank, EnvRanks, RolloutRanks, Modes
  <2>5. \A m \in Modes : Quiet(m)'
    BY <2>1, <2>2 DEF LoopsFit, Quiet, RolloutRanks
  <2>6. \A s \in RolloutRanks : s \in unsynced' \/ policy'[s] = version'
    BY <2>1 DEF LoopsFit, PerRank
  <2>7. UNCHANGED <<Modes, RolloutRanks>>
    BY DEF Modes, RolloutRanks
  <2> QED
    BY <2>2, <2>3, <2>4, <2>5, <2>6, <2>7 DEF LoopsFit
<1>7. ASSUME UNCHANGED <<pc, version, global_step, unsynced, env_calls, env_at, policy, serving, rollout_at,
                         env_channel, rollout_channel>>
      PROVE  LoopsFit'
  <2>1. CASE \E m \in Modes : Running(m)
    <3>1. PICK m \in Modes : Running(m)
      BY <2>1
    <3>2. CallsFit(m) /\ PerRank
      BY <3>1 DEF LoopsFit
    <3>3. PerRank'
      BY <1>7, <3>2 DEF PerRank, EnvRanks, RolloutRanks, Modes
    <3>4. CallsFit(m)'
      <4>1. \A e \in EnvRanks : EnvFits(e, m)'
        BY <1>7, <3>2, SameFits DEF CallsFit
      <4>2. \A r \in RolloutRanks : RolloutFits(r, m)'
        BY <1>7, <3>2, SameFits DEF CallsFit
      <4>3. ASSUME NEW e \in EnvRanks, NEW r \in Gathered(e)
            PROVE  ObservationsFlow(e, r, m)' /\ RepliesFlow(e, r, m)'
        <5>1. UNCHANGED <<EnvAt(e, m), RolloutAt(r, m)>>
          BY <1>7 DEF EnvAt, RolloutAt, End, Epochs
        <5> QED
          BY <1>7, <3>2, <5>1, SameFlows DEF CallsFit
      <4>4. UNCHANGED <<EnvRanks, RolloutRanks>> /\ \A e : UNCHANGED Gathered(e)
        BY DEF EnvRanks, RolloutRanks, Gathered
      <4> QED
        BY <4>1, <4>2, <4>3, <4>4 DEF CallsFit
    <3> QED
      BY <1>7, <3>1, <3>3, <3>4, CallGoesOn
  <2>2. CASE \A m \in Modes : ~Running(m)
    <3>1. pc' \notin {"generate", "evaluate"}
      BY <1>7, <2>2, OneRuns
    <3>2. pc' \in {"sync", "sync_eval"} => \A r \in RolloutRanks : r \in unsynced' \/ policy[r] = version'
      BY <1>7 DEF LoopsFit
    <3> QED
      BY <1>5, <1>7, <2>2, <3>1, <3>2, NobodyMoves
  <2> QED
    BY <2>1, <2>2
<1>8. ASSUME NEW a \in ActorRanks, recv_rollout_batch(a) PROVE LoopsFit'
  <2>1. UNCHANGED <<pc, version, global_step, unsynced, env_calls, env_at, policy, serving, rollout_at,
                    env_channel, rollout_channel>>
    BY <1>8 DEF recv_rollout_batch, runner, envs, rollouts, channels
  <2> QED
    BY <1>7, <2>1
<1>9. ASSUME NEW a \in ActorRanks, WriteShard(a) PROVE LoopsFit'
  <2>1. UNCHANGED <<pc, version, global_step, unsynced, env_calls, env_at, policy, serving, rollout_at,
                    env_channel, rollout_channel>>
    BY <1>9 DEF WriteShard, envs, rollouts, channels
  <2> QED
    BY <1>7, <2>1
<1>10. ASSUME NEW m \in Modes, pc \in {"sync", "sync_eval"}, unsynced = {}, CallAll(m),
             pc' = IF m = "train" THEN "generate" ELSE "evaluate"
      PROVE  LoopsFit'
  <2>1. \A n \in Modes : ~Running(n) /\ Quiet(n)
    BY <1>10 DEF Running, Modes, LoopsFit
  <2>2. PerRank /\ NoneCalled /\ \A r \in RolloutRanks : policy[r] = version
    BY <1>10, <2>1 DEF LoopsFit
  <2>3. PerRank' /\ CallsFit(m)'
    BY <1>10, <2>1, <2>2, CallsBegin
  <2>4. \A n \in Modes : Running(n)' <=> n = m
    BY <1>10 DEF Running, Modes
  <2>5. \A n \in Modes : Quiet(n)'
    BY <1>10, <2>1 DEF CallAll, channels, Quiet, RolloutRanks
  <2>6. Modes' = Modes /\ pc' \notin {"sync", "sync_eval"}
    BY <1>10 DEF Modes
  <2> QED
    BY <2>3, <2>4, <2>5, <2>6 DEF LoopsFit
<1>11. ASSUME StartGenerate \/ StartEvaluate PROVE LoopsFit'
  <2>1. CASE StartGenerate
    BY <1>10, <2>1 DEF StartGenerate, Modes
  <2>2. CASE StartEvaluate
    BY <1>10, <2>2 DEF StartEvaluate, Modes
  <2> QED
    BY <1>11, <2>1, <2>2
<1>12. ASSUME NEW m \in Modes, Running(m), \A r \in RolloutRanks : serving[r] = "none",
              m = "eval" => \A e \in EnvRanks : env_calls[e] = <<>>,
              pc' \in {"train", "save"},
              UNCHANGED <<version, env_calls, env_at, policy, serving, rollout_at,
                          env_channel, rollout_channel>>
       PROVE  LoopsFit'
  <2>1. NoneCalled /\ Quiet(m)
    BY <1>12, CallsEnd DEF LoopsFit
  <2>2. \A n \in Modes : n # m => Quiet(n)
    BY <1>12, OneRuns DEF LoopsFit
  <2>3. \A n \in Modes : Quiet(n)' /\ ~Running(n)'
    BY <1>12, <2>1, <2>2 DEF Quiet, RolloutRanks, Running
  <2>4. PerRank' /\ NoneCalled'
    BY <1>12, <2>1 DEF LoopsFit, PerRank, NoneCalled, EnvRanks, RolloutRanks, Modes, Start
  <2>5. Modes' = Modes
    BY DEF Modes
  <2> QED
    BY <1>12, <2>3, <2>4, <2>5 DEF LoopsFit
<1>13. ASSUME GenerateEnds \/ EvaluateEnds PROVE LoopsFit'
  <2>1. CASE GenerateEnds
    <3>1. Running("train") /\ "train" \in Modes
      BY <2>1 DEF GenerateEnds, Running, Modes
    <3> QED
      BY <1>12, <2>1, <3>1 DEF GenerateEnds, envs, rollouts, channels
  <2>2. CASE EvaluateEnds
    <3>1. Running("eval") /\ "eval" \in Modes
      BY <2>2 DEF EvaluateEnds, Running, Modes
    <3> QED
      BY <1>12, <2>2, <3>1 DEF EvaluateEnds, envs, rollouts, channels
  <2> QED
    BY <1>13, <2>1, <2>2
<1>14. ASSUME Train \/ Save \/ WriteMetadata \/ WriteRef \/ EndStep PROVE LoopsFit'
  <2>1. pc \in {"train", "save", "shards", "ref", "join"}
    BY <1>14 DEF Train, Save, WriteMetadata, WriteRef, EndStep
  <2>2. (\A m \in Modes : ~Running(m)) /\ NoneCalled
    BY <1>5, <2>1 DEF Running, Modes
  <2>3. UNCHANGED <<env_calls, env_at, policy, serving, rollout_at, env_channel, rollout_channel>>
    BY <1>14 DEF Train, Save, WriteMetadata, WriteRef, EndStep, envs, rollouts, channels
  <2>4. /\ pc' \in {"sync_eval", "save", "shards", "ref", "join", "sync", "done"}
        /\ pc' \in {"sync", "sync_eval"} => unsynced' = RolloutRanks
    BY <1>14 DEF Train, Save, WriteMetadata, WriteRef, SaveEnds, EndStep
  <2> QED
    BY <2>2, <2>3, <2>4, NobodyMoves
<1>15. ASSUME Restart PROVE LoopsFit'
  <2>1. /\ pc' \in {"sync", "done"} /\ unsynced' = RolloutRanks
        /\ policy' = [r \in RolloutRanks |-> InitialActor]
        /\ env_calls' = [e \in EnvRanks |-> <<>>] /\ env_at' = [e \in EnvRanks |-> Start(0)]
        /\ serving' = [r \in RolloutRanks |-> "none"]
        /\ rollout_at' = [r \in RolloutRanks |-> Start(1)]
        /\ env_channel' = NoMessages /\ rollout_channel' = NoMessages
    BY <1>15 DEF Restart
  <2>2. UNCHANGED <<Modes, RolloutRanks, EnvRanks, Start(0), Start(1)>>
    BY DEF Modes, RolloutRanks, EnvRanks, Start
  <2>3. PerRank'
    BY <2>1, <2>2 DEF PerRank, NoMessages
  <2>4. NoneCalled'
    BY <2>1, <2>2 DEF NoneCalled
  <2>5. \A m \in Modes : ~Running(m)' /\ Quiet(m)'
    BY <2>1, <2>2 DEF Running, Quiet, NoMessages, Modes
  <2> QED
    BY <2>1, <2>2, <2>3, <2>4, <2>5 DEF LoopsFit
<1>16. CASE UNCHANGED pipelineVars
  BY <1>7, <1>16 DEF pipelineVars, runner, envs, rollouts, channels
<1>17. CASE PipelineNext
  <2>1. ASSUME NEW r \in RolloutRanks, Rollout(r) PROVE LoopsFit'
    BY <1>2, <1>3, <1>4, <1>6, <2>1 DEF Rollout
  <2>2. ASSUME Runner PROVE LoopsFit'
    BY <1>11, <1>13, <1>14, <2>2 DEF Runner
  <2> QED
    BY <1>1, <1>8, <1>15, <1>17, <1>9, <2>1, <2>2 DEF PipelineNext, Actor
<1> QED
  BY <1>16, <1>17

LEMMA LoopsFitMessages == LoopsFit => MessagesFit
<1> SUFFICES ASSUME LoopsFit PROVE MessagesFit
  OBVIOUS
<1>1. ASSUME NEW r \in RolloutRanks, NEW m \in Modes, serving[r] = m, env_channel[<<r, m>>] # <<>>
      PROVE  Head(env_channel[<<r, m>>]) =
               [run |-> global_step, at |-> [rollout_at[r] EXCEPT !.step = @ - 1]]
  <2> DEFINE o == Head(env_channel[<<r, m>>])
  <2>1. PICK e \in EnvRanks : r \in Gathered(e)
    BY EveryRankServes
  <2>2. CallsFit(m)
    BY <1>1, RolloutInMode
  <2>3. o \in Observation(m) /\ o.at = Shown(RolloutAt(r, m))
    BY <1>1, <2>1, <2>2, HeadFits DEF CallsFit
  <2>4. RolloutAt(r, m) = rollout_at[r]
    BY <1>1 DEF RolloutAt
  <2> HIDE DEF o
  <2>5. o = [run |-> global_step, at |-> o.at]
    BY <2>3 DEF Observation
  <2>6. o = [run |-> global_step, at |-> [rollout_at[r] EXCEPT !.step = @ - 1]]
    BY <2>3, <2>4, <2>5 DEF Shown
  <2> QED
    BY <2>6 DEF o
<1>2. ASSUME NEW e \in EnvRanks, NEW m \in Modes, EnvRuns(e, m), env_at[e].step > 0,
             NEW r \in Gathered(e), rollout_channel[<<r, m>>] # <<>>
      PROVE  Head(rollout_channel[<<r, m>>]) =
               [obs |-> Obs(e, [env_at[e] EXCEPT !.step = @ - 1]), policy |-> version]
  <2> DEFINE x == Head(rollout_channel[<<r, m>>])
             at == [env_at[e] EXCEPT !.step = @ - 1]
  <2>1. CallsFit(m)
    BY <1>2, EnvInMode
  <2>2. x \in Reply(m) /\ x.obs.at = Awaited(EnvAt(e, m))
    BY <1>2, <2>1, ReplyFits DEF CallsFit
  <2>3. env_calls[e] = <<[mode |-> m, run |-> global_step]>> /\ EnvAt(e, m) = env_at[e]
    BY <1>2, <2>1 DEF CallsFit, EnvFits, EnvRuns, EnvAt
  <2>4. Awaited(env_at[e]) = at
    BY <1>2 DEF Awaited, Shown
  <2> HIDE DEF x, at
  <2>5. x = [obs |-> [run |-> global_step, at |-> x.obs.at], policy |-> version]
    BY <2>2 DEF Reply, Observation
  <2>6. Obs(e, at) = [run |-> global_step, at |-> at]
    BY <2>3 DEF Obs
  <2>7. x = [obs |-> Obs(e, at), policy |-> version]
    BY <2>2, <2>3, <2>4, <2>5, <2>6
  <2> QED
    BY <2>7 DEF x, at
<1>3. ASSUME pc \in {"sync", "done"} PROVE env_channel = NoMessages /\ rollout_channel = NoMessages
  <2>1. \A m \in Modes : Quiet(m)
    BY <1>3 DEF Running, Modes, LoopsFit
  <2>2. ASSUME NEW q \in RolloutRanks \X Modes PROVE env_channel[q] = <<>> /\ rollout_channel[q] = <<>>
    <3>1. q = <<q[1], q[2]>> /\ q[1] \in RolloutRanks /\ q[2] \in Modes
      OBVIOUS
    <3> QED
      BY <2>1, <3>1 DEF Quiet
  <2> QED
    BY <2>2 DEF LoopsFit, PerRank, NoMessages
<1> QED
  BY <1>1, <1>2, <1>3 DEF MessagesFit

(* Whatever a worker takes from a channel is what its loops take it for, of *)
(* this call's run, epoch, step and stage and computed with its weights, and *)
(* when a training step begins or the program ends nothing is left in the   *)
(* channels, whatever the numbers of ranks, stages, steps and epochs        *)
(* (EnvWorker.interact, evaluate; MultiStepRolloutWorker.generate, evaluate).*)
THEOREM PipelineMessagesFit == PipelineSpec => []MessagesFit
<1>1. PipelineSpec => []LoopsFit
  BY LoopsInit, LoopsStep, PTL DEF PipelineSpec
<1> QED
  BY <1>1, LoopsFitMessages, PTL

-----------------------------------------------------------------------------
(* What trajectories hold, where they are and when they are whole.          *)

(* Entry k of row d, of rows of w entries one after the other. *)
At(d, k, w) == (d - 1) * w + k

IsSeq(q) == q \in Seq(Elems(q))

(* q holds, row after row, rows 1 to e - 1 of F and n entries of row e.     *)
Grid(q, w, e, n, F) ==
  /\ IsSeq(q) /\ Len(q) = At(e, n, w)
  /\ \A d \in 1 .. e : \A k \in 1 .. w : d < e \/ k <= n => q[At(d, k, w)] = F[<<d, k>>]

(* For stage s, by epoch and number: the observations of this step's run,   *)
(* those that follow an action, and the actions.                            *)
ObsAt(s)  == [x \in Nat \X Nat |->
                [run |-> global_step, at |-> [epoch |-> x[1], step |-> x[2] - 1, stage |-> s]]]
NextAt(s) == [x \in Nat \X Nat |->
                [run |-> global_step, at |-> [epoch |-> x[1], step |-> x[2], stage |-> s]]]
ActAt(s)  == [x \in Nat \X Nat |-> [obs |-> ObsAt(s)[x], policy |-> version]]

Followed(t)  == IF t = 0 THEN 0 ELSE t - 1
Answered(t)  == IF t <= n_chunk_steps THEN t ELSE n_chunk_steps

(* The rows of a stage after t observations of epoch e. *)
Filled(rows, s, e, t) ==
  /\ Grid(rows.dones, n_chunk_steps + 1, e, t, ObsAt(s))
  /\ Grid(rows.values, n_chunk_steps + 1, e, t, ObsAt(s))
  /\ Grid(rows.rewards, n_chunk_steps, e, Followed(t), NextAt(s))
  /\ Grid(rows.inputs, n_chunk_steps, e, Followed(t), ActAt(s))
  /\ Grid(rows.actions, n_chunk_steps, e, Answered(t), ActAt(s))
  /\ rows.last = IF t = 0 \/ t > n_chunk_steps THEN <<>> ELSE <<ActAt(s)[<<e, t>>]>>

Complete(rows, s) == Filled(rows, s, rollout_epoch, n_chunk_steps + 1)

Heard(at, s) == IF s < at.stage THEN at.step ELSE at.step - 1

(* The trajectories that rollout ranks collect are filled as far as their   *)
(* loops are, of every stage in the order of epochs and steps.              *)
BuffersFit ==
  \A r \in RolloutRanks : \A s \in Stages :
    /\ serving[r] = "train" => Filled(buffer[r][s], s, rollout_at[r].epoch, Heard(rollout_at[r], s))
    /\ serving[r] # "train" => Complete(buffer[r][s], s)

(* A part is whole: environments dealt to its rank, all rows of its stage.  *)
PartFits(x) ==
  /\ x.rank \in RolloutRanks /\ x.stage \in Stages
  /\ \E p \in 1 .. Parts : x.envs = PartEnvs(x.rank, p)
  /\ Complete(x.rows, x.stage)

Sent(r, s) == serving[r] = "none" \/ (serving[r] = "send" /\ s < rollout_at[r].stage)

Id(x) == <<x.rank, x.stage, x.envs>>

(* The places of an actor rank that are taken, and what is in them.         *)
Slots == {a \in ActorRanks \X (1 .. Share) : a[2] <= Len(rollout_batch[a[1]])}
In(a) == rollout_batch[a[1]][a[2]]

(* Actor ranks have whole parts, and no part twice; nor is any in the       *)
(* channel twice, or there and with a rank; all are of stages already sent. *)
BatchesFit ==
  /\ \A a \in Slots : PartFits(In(a))
  /\ \A a, b \in Slots : Id(In(a)) = Id(In(b)) => a = b

ChannelFits ==
  /\ \A k \in DOMAIN actor_channel : PartFits(actor_channel[k]) /\ Sent(actor_channel[k].rank, actor_channel[k].stage)
  /\ \A k, l \in DOMAIN actor_channel : Id(actor_channel[k]) = Id(actor_channel[l]) => k = l
  /\ \A a \in Slots : Sent(In(a).rank, In(a).stage)
  /\ \A a \in Slots : \A k \in DOMAIN actor_channel : Id(In(a)) # Id(actor_channel[k])

DataTypes ==
  /\ buffer = [r \in RolloutRanks |-> [s \in Stages |-> buffer[r][s]]]
  /\ IsSeq(actor_channel)
  /\ rollout_batch = [a \in ActorRanks |-> rollout_batch[a]]
  /\ \A a \in ActorRanks : IsSeq(rollout_batch[a]) /\ Len(rollout_batch[a]) <= Share

(* The invariant of the data: from generate to train, what is collected,    *)
(* sent and received fits; in any other phase nothing is under way.         *)
DataFit ==
  /\ DataTypes
  /\ pc # "generate" => actor_channel = <<>>
  /\ pc = "generate" => BuffersFit /\ ChannelFits
  /\ pc \in {"generate", "train"} => BatchesFit
  /\ pc = "train" => \A a \in ActorRanks : Len(rollout_batch[a]) = Share

LEMMA SeqOfElems ==
  ASSUME NEW S, NEW q \in Seq(S)
  PROVE  IsSeq(q)
<1>1. Len(q) \in Nat /\ DOMAIN q = 1 .. Len(q)
  OBVIOUS
<1>2. q = [i \in 1 .. Len(q) |-> q[i]]
  OBVIOUS
<1>3. \A i \in 1 .. Len(q) : q[i] \in Elems(q)
  BY <1>1 DEF Elems
<1>4. q \in [1 .. Len(q) -> Elems(q)]
  BY <1>2, <1>3
<1> QED BY <1>1, <1>4 DEF IsSeq

LEMMA GridPlaces ==
  ASSUME NEW w \in Nat, NEW d \in Nat \ {0}, NEW e \in Nat \ {0}, NEW k \in 1 .. w, NEW n \in 0 .. w
  PROVE  /\ At(d, k, w) \in Nat \ {0} /\ At(e, n, w) \in Nat
         /\ d < e => At(d, k, w) <= At(e, n, w)
         /\ d = e /\ k <= n => At(d, k, w) <= At(e, n, w)
         /\ d > e => At(d, k, w) > At(e, n, w)
         /\ d = e /\ k > n => At(d, k, w) > At(e, n, w)
         /\ At(e, n, w) + 1 = At(e, n + 1, w)
<1>1. PICK x \in Nat : x = (d - 1) * w
  <2>1. d - 1 \in Nat
    OBVIOUS
  <2> QED BY <2>1
<1>2. PICK y \in Nat : y = (e - 1) * w
  <2>1. e - 1 \in Nat
    OBVIOUS
  <2> QED BY <2>1
<1>3. ASSUME NEW a \in Nat, NEW b \in Nat, a < b PROVE a * w + w <= b * w /\ a * w \in Nat /\ b * w \in Nat
  <2>1. PICK c \in Nat : b = a + 1 + c
    <3>1. b - a - 1 \in Nat /\ b = a + 1 + (b - a - 1)
      BY <1>3
    <3> QED BY <3>1
  <2>2. (a + 1 + c) * w = a * w + w + c * w /\ c * w \in Nat /\ a * w \in Nat
    OBVIOUS
  <2> QED BY <2>1, <2>2
<1>4. d < e => x + w <= y
  BY <1>1, <1>2, <1>3
<1>5. e < d => y + w <= x
  BY <1>1, <1>2, <1>3
<1>6. At(d, k, w) = x + k /\ At(e, n, w) = y + n /\ At(e, n + 1, w) = y + (n + 1)
  BY <1>1, <1>2 DEF At
<1>7. d = e => x = y
  BY <1>1, <1>2
<1> QED BY <1>4, <1>5, <1>6, <1>7

LEMMA GridStarts == ASSUME NEW w \in Nat, NEW F PROVE Grid(<<>>, w, 1, 0, F)
<1>1. At(1, 0, w) = 0
  BY DEF At
<1>2. IsSeq(<<>>) /\ Len(<<>>) = 0
  <2>1. <<>> \in Seq({}) /\ Len(<<>>) = 0
    OBVIOUS
  <2> QED BY <2>1, SeqOfElems
<1>3. ASSUME NEW d \in 1 .. 1, NEW k \in 1 .. w, d < 1 \/ k <= 0 PROVE FALSE
  BY <1>3
<1> QED BY <1>1, <1>2, <1>3 DEF Grid

LEMMA GridRolls ==
  ASSUME NEW w \in Nat, NEW e \in Nat \ {0}, NEW q, NEW F, Grid(q, w, e, w, F)
  PROVE  Grid(q, w, e + 1, 0, F)
<1>1. At(e, w, w) = At(e + 1, 0, w)
  BY DEF At
<1>2. ASSUME NEW d \in 1 .. e + 1, NEW k \in 1 .. w, d < e + 1 \/ k <= 0
      PROVE  q[At(d, k, w)] = F[<<d, k>>]
  <2>1. d \in 1 .. e /\ k <= w
    BY <1>2
  <2> QED BY <2>1 DEF Grid
<1> QED BY <1>1, <1>2 DEF Grid

LEMMA GridGrows ==
  ASSUME NEW w \in Nat, NEW e \in Nat \ {0}, NEW n \in Nat, n < w, NEW q, NEW F,
         Grid(q, w, e, n, F), NEW x, x = F[<<e, n + 1>>]
  PROVE  Grid(Append(q, x), w, e, n + 1, F)
<1>1. PICK S : q \in Seq(S) /\ x \in S
  <2>1. q \in Seq(Elems(q) \cup {x})
    BY DEF Grid, IsSeq
  <2> QED BY <2>1
<1>2. PICK p : p = Append(q, x)
  OBVIOUS
<1>3. /\ p \in Seq(S) /\ Len(p) = Len(q) + 1 /\ p[Len(q) + 1] = x
      /\ \A i \in 1 .. Len(q) : p[i] = q[i]
  BY <1>1, <1>2
<1>4. /\ Len(q) = At(e, n, w) /\ Len(q) \in Nat
      /\ \A d \in 1 .. e : \A k \in 1 .. w : d < e \/ k <= n => q[At(d, k, w)] = F[<<d, k>>]
  BY <1>1 DEF Grid
<1>5. Len(q) + 1 = At(e, n + 1, w)
  BY <1>4 DEF At
<1>6. ASSUME NEW d \in 1 .. e, NEW k \in 1 .. w, d < e \/ k <= n + 1
      PROVE  p[At(d, k, w)] = F[<<d, k>>]
  <2>1. CASE d < e \/ k <= n
    <3>1. At(d, k, w) \in Nat \ {0} /\ At(d, k, w) <= At(e, n, w)
      <4>1. d \in Nat \ {0} /\ n \in 0 .. w /\ (d < e \/ d = e)
        OBVIOUS
      <4> QED BY <2>1, <4>1, GridPlaces
    <3>2. At(d, k, w) \in 1 .. Len(q)
      BY <1>4, <3>1
    <3> QED BY <1>3, <1>4, <2>1, <3>2
  <2>2. CASE ~(d < e \/ k <= n)
    <3>1. d = e /\ k = n + 1
      BY <1>6, <2>2
    <3> QED BY <1>3, <1>5, <3>1
  <2> QED BY <2>1, <2>2
<1>7. Len(p) = At(e, n + 1, w) /\ IsSeq(p)
  BY <1>3, <1>5, SeqOfElems
<1> QED BY <1>2, <1>6, <1>7 DEF Grid

LEMMA OneMore ==
  ASSUME NEW q, IsSeq(q)
  PROVE  /\ q \o <<>> = q
         /\ \A x : q \o <<x>> = Append(q, x)
<1>1. PICK S : S = Elems(q) /\ q \in Seq(S)
  BY DEF IsSeq
<1>2. ASSUME NEW x PROVE q \o <<x>> = Append(q, x)
  <2>1. PICK T : q \in Seq(T) /\ x \in T
    <3>1. q \in Seq(S \cup {x})
      BY <1>1
    <3> QED BY <3>1
  <2> QED BY <2>1
<1> QED BY <1>1, <1>2

LEMMA ObsEntry ==
  ASSUME NEW e \in Nat, NEW t \in Nat, NEW s
  PROVE  ObsAt(s)[<<e, t>>] = [run |-> global_step, at |-> [epoch |-> e, step |-> t - 1, stage |-> s]]
<1>1. PICK x : x = <<e, t>>
  OBVIOUS
<1>2. x \in Nat \X Nat /\ x[1] = e /\ x[2] = t
  BY <1>1
<1> QED BY <1>1, <1>2 DEF ObsAt

LEMMA NextEntry ==
  ASSUME NEW e \in Nat, NEW t \in Nat, NEW s
  PROVE  NextAt(s)[<<e, t>>] = [run |-> global_step, at |-> [epoch |-> e, step |-> t, stage |-> s]]
<1>1. PICK x : x = <<e, t>>
  OBVIOUS
<1>2. x \in Nat \X Nat /\ x[1] = e /\ x[2] = t
  BY <1>1
<1> QED BY <1>1, <1>2 DEF NextAt

LEMMA ActEntry ==
  ASSUME NEW e \in Nat, NEW t \in Nat, NEW s
  PROVE  ActAt(s)[<<e, t>>] = [obs |-> ObsAt(s)[<<e, t>>], policy |-> version]
<1>1. PICK x : x = <<e, t>>
  OBVIOUS
<1>2. x \in Nat \X Nat /\ x[1] = e /\ x[2] = t
  BY <1>1
<1> QED BY <1>1, <1>2 DEF ActAt

(* One more observation, and what follows from it. *)
LEMMA FilledGrows ==
  ASSUME NEW s, NEW e \in Nat \ {0}, NEW t \in 0 .. n_chunk_steps, NEW rows, Filled(rows, s, e, t),
         NEW o, o = ObsAt(s)[<<e, t + 1>>],
         NEW action, action = IF t < n_chunk_steps THEN <<ActAt(s)[<<e, t + 1>>]>> ELSE <<>>
  PROVE  Filled(Collect(rows, o, action), s, e, t + 1)
<1> DEFINE new == Collect(rows, o, action)
<1>1. n_chunk_steps \in Nat \ {0}
  BY PipelineAssumption
<1>2. /\ new.dones = Append(rows.dones, o) /\ new.values = Append(rows.values, o)
      /\ new.rewards = rows.rewards \o Reward(o) /\ new.actions = rows.actions \o action
      /\ new.inputs = rows.inputs \o rows.last /\ new.last = action
  BY DEF Collect
<1> HIDE DEF new
<1>3. /\ Grid(new.dones, n_chunk_steps + 1, e, t + 1, ObsAt(s))
      /\ Grid(new.values, n_chunk_steps + 1, e, t + 1, ObsAt(s))
  <2>1. PICK w \in Nat, F \in {ObsAt(s)} : w = n_chunk_steps + 1 /\ F = ObsAt(s)
    BY <1>1
  <2>2. t < w /\ t \in Nat
    BY <1>1, <2>1
  <2>3. Grid(rows.dones, w, e, t, F) /\ Grid(rows.values, w, e, t, F)
    BY <2>1 DEF Filled
  <2>4. Grid(new.dones, w, e, t + 1, F)
    BY <1>2, <2>1, <2>2, <2>3, GridGrows
  <2>5. Grid(new.values, w, e, t + 1, F)
    BY <1>2, <2>1, <2>2, <2>3, GridGrows
  <2> QED BY <2>1, <2>4, <2>5
<1>4. Grid(new.actions, n_chunk_steps, e, Answered(t + 1), ActAt(s))
      /\ new.last = IF t + 1 = 0 \/ t + 1 > n_chunk_steps THEN <<>> ELSE <<ActAt(s)[<<e, t + 1>>]>>
  <2>1. PICK w \in Nat, F \in {ActAt(s)} : w = n_chunk_steps /\ F = ActAt(s)
    BY <1>1
  <2>2. Grid(rows.actions, w, e, t, F) /\ t \in Nat
    BY <1>1, <2>1 DEF Filled, Answered
  <2>3. IsSeq(rows.actions)
    BY <2>2 DEF Grid
  <2>4. CASE t < n_chunk_steps
    <3>1. new.actions = Append(rows.actions, F[<<e, t + 1>>])
      BY <1>2, <2>1, <2>3, <2>4, OneMore
    <3>2. Grid(new.actions, w, e, t + 1, F)
      BY <2>1, <2>2, <2>4, <3>1, GridGrows
    <3>3. Answered(t + 1) = t + 1 /\ ~(t + 1 = 0 \/ t + 1 > n_chunk_steps)
      BY <1>1, <2>4 DEF Answered
    <3> QED BY <1>2, <2>1, <2>4, <3>2, <3>3
  <2>5. CASE ~(t < n_chunk_steps)
    <3>1. new.actions = rows.actions
      BY <1>2, <2>3, <2>5, OneMore
    <3>2. Answered(t + 1) = t /\ t + 1 > n_chunk_steps
      BY <1>1, <2>5 DEF Answered
    <3> QED BY <1>2, <2>1, <2>2, <2>5, <3>1, <3>2
  <2> QED BY <2>4, <2>5
<1>5. /\ Grid(new.rewards, n_chunk_steps, e, Followed(t + 1), NextAt(s))
      /\ Grid(new.inputs, n_chunk_steps, e, Followed(t + 1), ActAt(s))
  <2>1. PICK w \in Nat, F \in {NextAt(s)}, G \in {ActAt(s)} : w = n_chunk_steps /\ F = NextAt(s) /\ G = ActAt(s)
    BY <1>1
  <2>2. Followed(t + 1) = t /\ t \in Nat /\ t + 1 \in Nat /\ e \in Nat /\ (t + 1) - 1 = t
    BY <1>1 DEF Followed
  <2>3. Grid(rows.rewards, w, e, Followed(t), F) /\ Grid(rows.inputs, w, e, Followed(t), G)
    BY <2>1 DEF Filled
  <2>4. IsSeq(rows.rewards) /\ IsSeq(rows.inputs)
    BY <2>3 DEF Grid
  <2>5. o = [run |-> global_step, at |-> [epoch |-> e, step |-> t, stage |-> s]]
    <3>1. PICK m \in Nat : m = t + 1 /\ m - 1 = t
      BY <2>2
    <3>2. e \in Nat
      OBVIOUS
    <3>3. ObsAt(s)[<<e, m>>] =
            [run |-> global_step, at |-> [epoch |-> e, step |-> m - 1, stage |-> s]]
      BY <3>2, ObsEntry
    <3>4. o = ObsAt(s)[<<e, m>>]
      BY <3>1
    <3> QED BY <3>1, <3>3, <3>4
  <2>6. o.at.step = t
    BY <2>5
  <2>7. CASE t = 0
    <3>1. Reward(o) = <<>> /\ rows.last = <<>> /\ Followed(t) = t
      BY <2>6, <2>7 DEF Reward, Filled, Followed
    <3>2. new.rewards = rows.rewards /\ new.inputs = rows.inputs
      BY <1>2, <2>4, <3>1, OneMore
    <3> QED BY <2>1, <2>2, <2>3, <3>1, <3>2
  <2>8. CASE t # 0
    <3>1. Reward(o) = <<o>> /\ rows.last = <<G[<<e, t>>]>>
      BY <1>1, <2>1, <2>6, <2>8 DEF Reward, Filled
    <3>2. PICK n \in Nat : n = t - 1 /\ n < w /\ n + 1 = t /\ n = Followed(t)
      BY <1>1, <2>1, <2>8 DEF Followed
    <3>3. o = F[<<e, n + 1>>]
      <4>1. NextAt(s)[<<e, t>>] = [run |-> global_step, at |-> [epoch |-> e, step |-> t, stage |-> s]]
        BY <2>2, NextEntry
      <4> QED BY <2>1, <2>5, <3>2, <4>1
    <3>4. new.rewards = Append(rows.rewards, o) /\ new.inputs = Append(rows.inputs, G[<<e, n + 1>>])
      <4>1. PICK g : g = G[<<e, t>>]
        OBVIOUS
      <4>2. g = G[<<e, n + 1>>] /\ rows.last = <<g>>
        BY <3>1, <3>2, <4>1
      <4>3. new.rewards = Append(rows.rewards, o)
        BY <1>2, <2>4, <3>1, OneMore
      <4>4. new.inputs = Append(rows.inputs, g)
        BY <1>2, <2>4, <4>2, OneMore
      <4> QED BY <4>2, <4>3, <4>4
    <3>5. Grid(new.rewards, w, e, n + 1, F)
      BY <2>3, <3>2, <3>3, <3>4, GridGrows
    <3>6. Grid(new.inputs, w, e, n + 1, G)
      BY <2>3, <3>2, <3>4, GridGrows
    <3> QED BY <2>1, <2>2, <3>2, <3>5, <3>6
  <2> QED BY <2>7, <2>8
<1>6. Filled(new, s, e, t + 1)
  BY <1>3, <1>4, <1>5 DEF Filled
<1> QED BY <1>6 DEF new

(* The rows at the end of an epoch are those at the beginning of the next.  *)
LEMMA FilledRolls ==
  ASSUME NEW s, NEW e \in Nat \ {0}, NEW rows, Filled(rows, s, e, n_chunk_steps + 1)
  PROVE  Filled(rows, s, e + 1, 0)
<1>1. n_chunk_steps \in Nat \ {0} /\ n_chunk_steps + 1 \in Nat
  BY PipelineAssumption
<1>2. PICK w \in Nat, v \in Nat : w = n_chunk_steps /\ v = n_chunk_steps + 1
  BY <1>1
<1>3. Followed(v) = w /\ Answered(v) = w /\ Followed(0) = 0 /\ Answered(0) = 0 /\ v > w /\ v # 0
  BY <1>1, <1>2 DEF Followed, Answered
<1>4. /\ Grid(rows.dones, v, e, v, ObsAt(s)) /\ Grid(rows.values, v, e, v, ObsAt(s))
      /\ Grid(rows.rewards, w, e, w, NextAt(s)) /\ Grid(rows.inputs, w, e, w, ActAt(s))
      /\ Grid(rows.actions, w, e, w, ActAt(s)) /\ rows.last = <<>>
  BY <1>2, <1>3 DEF Filled
<1>5. /\ Grid(rows.dones, v, e + 1, 0, ObsAt(s)) /\ Grid(rows.values, v, e + 1, 0, ObsAt(s))
      /\ Grid(rows.rewards, w, e + 1, 0, NextAt(s)) /\ Grid(rows.inputs, w, e + 1, 0, ActAt(s))
      /\ Grid(rows.actions, w, e + 1, 0, ActAt(s))
  BY <1>4, GridRolls
<1> QED BY <1>2, <1>3, <1>4, <1>5 DEF Filled

LEMMA FilledStarts == ASSUME NEW s PROVE Filled(NoRows, s, 1, 0)
<1>1. n_chunk_steps \in Nat /\ n_chunk_steps + 1 \in Nat /\ Followed(0) = 0 /\ Answered(0) = 0
  BY PipelineAssumption DEF Followed, Answered
<1>2. \A w \in Nat : \A F : Grid(<<>>, w, 1, 0, F)
  BY GridStarts
<1> QED BY <1>1, <1>2 DEF Filled, NoRows

LEMMA FilledSame ==
  ASSUME UNCHANGED <<global_step, version>>
  PROVE  \A rows, s, e, t : Filled(rows, s, e, t)' <=> Filled(rows, s, e, t)
<1>1. \A s : ObsAt(s)' = ObsAt(s) /\ NextAt(s)' = NextAt(s)
  BY DEF ObsAt, NextAt
<1>2. ASSUME NEW s PROVE ActAt(s)' = ActAt(s)
  <2>1. ObsAt(s)' = ObsAt(s)
    BY <1>1
  <2> QED BY <2>1 DEF ActAt
<1> QED BY <1>1, <1>2 DEF Filled

(* All stages when the rank that was at one goes on. *)
LEMMA StagesFilled ==
  ASSUME NEW at \in Place("train"), at.step \in 1 .. n_chunk_steps + 1, NEW b,
         \A x \in Stages : Filled(b[x], x, at.epoch, IF x <= at.stage THEN at.step ELSE at.step - 1)
  PROVE  LET next == After(at, 1, n_chunk_steps + 1) IN
         \A x \in Stages :
           /\ next.epoch <= rollout_epoch => Filled(b[x], x, next.epoch, Heard(next, x))
           /\ next.epoch > rollout_epoch => Complete(b[x], x)
<1> DEFINE next == After(at, 1, n_chunk_steps + 1)
<1>1. /\ n_chunk_steps \in Nat \ {0} /\ stage_num \in Nat \ {0} /\ rollout_epoch \in Nat
      /\ \A x \in Stages : x \in Nat /\ 1 <= x /\ x <= stage_num
  BY PipelineAssumption, StageAssumption DEF Stages
<1>2. /\ at \in Positions /\ at.epoch \in 1 .. rollout_epoch /\ at.epoch \in Nat /\ at.stage \in Nat
      /\ at.stage >= 1 /\ at.stage <= stage_num
  BY PlaceFields DEF Modes, Epochs
<1>3. next = IF at.stage < stage_num
             THEN [epoch |-> at.epoch, step |-> at.step, stage |-> at.stage + 1]
             ELSE IF at.step < n_chunk_steps + 1
             THEN [epoch |-> at.epoch, step |-> at.step + 1, stage |-> 1]
             ELSE [epoch |-> at.epoch + 1, step |-> 1, stage |-> 1]
  BY <1>1, <1>2, AfterEquals
<1> HIDE DEF next
<1>4. ASSUME NEW x \in Stages
      PROVE  /\ next.epoch <= rollout_epoch => Filled(b[x], x, next.epoch, Heard(next, x))
             /\ next.epoch > rollout_epoch => Complete(b[x], x)
  <2>1. PICK h : h = IF x <= at.stage THEN at.step ELSE at.step - 1
    OBVIOUS
  <2>2. Filled(b[x], x, at.epoch, h)
    BY <2>1
  <2>3. CASE at.stage < stage_num \/ at.step < n_chunk_steps + 1
    <3>1. next.epoch = at.epoch /\ Heard(next, x) = h
      BY <1>1, <1>2, <1>3, <2>1, <2>3 DEF Heard
    <3> QED BY <1>1, <1>2, <2>2, <3>1
  <2>4. CASE ~(at.stage < stage_num \/ at.step < n_chunk_steps + 1)
    <3>1. next.epoch = at.epoch + 1 /\ Heard(next, x) = 0 /\ h = n_chunk_steps + 1
      BY <1>1, <1>2, <1>3, <2>1, <2>4 DEF Heard
    <3>2. Filled(b[x], x, next.epoch, Heard(next, x))
      <4>1. at.epoch \in Nat \ {0}
        BY <1>2
      <4> QED BY <2>2, <3>1, <4>1, FilledRolls
    <3>3. next.epoch > rollout_epoch => at.epoch = rollout_epoch
      BY <1>1, <1>2, <3>1
    <3>4. next.epoch > rollout_epoch => Complete(b[x], x)
      BY <2>2, <3>1, <3>3 DEF Complete
    <3> QED BY <3>2, <3>4
  <2> QED BY <2>3, <2>4
<1> QED BY <1>4 DEF next

(* The observation a rank takes is the next of its stage. *)
LEMMA HearsNext ==
  ASSUME LoopsFit, NEW r \in RolloutRanks, Hears(r, "train")
  PROVE  /\ rollout_at[r] \in Place("train") /\ rollout_at[r].step \in 1 .. n_chunk_steps + 1
         /\ policy[r] = version
         /\ Head(env_channel[<<r, "train">>]) =
              ObsAt(rollout_at[r].stage)[<<rollout_at[r].epoch, rollout_at[r].step>>]
<1>1. /\ serving[r] = "train" /\ "train" \in Modes /\ env_channel[<<r, "train">>] # <<>>
  BY DEF Hears, Modes
<1>2. RolloutFits(r, "train")
  BY <1>1, RolloutInMode DEF CallsFit
<1>3. /\ rollout_at[r] \in Place("train") /\ rollout_at[r].step \in 1 .. n_chunk_steps + 1
      /\ policy[r] = version
  BY <1>1, <1>2 DEF RolloutFits, RolloutSteps
<1>4. Head(env_channel[<<r, "train">>]) = [run |-> global_step, at |-> Shown(rollout_at[r])]
  BY <1>1, LoopsFitMessages DEF MessagesFit, Shown
<1>5. PICK e \in Nat, t \in Nat, s \in {rollout_at[r].stage} :
        e = rollout_at[r].epoch /\ t = rollout_at[r].step /\ s = rollout_at[r].stage
  BY <1>1, <1>3, PlaceFields
<1>6. Shown(rollout_at[r]) = [epoch |-> e, step |-> t - 1, stage |-> s]
  BY <1>1, <1>3, <1>5, PlaceFields, ShownEquals
<1>7. ObsAt(s)[<<e, t>>] = [run |-> global_step, at |-> [epoch |-> e, step |-> t - 1, stage |-> s]]
  BY ObsEntry
<1> QED BY <1>3, <1>4, <1>5, <1>6, <1>7

LEMMA CollectKeepsBuffers ==
  ASSUME LoopsFit, DataTypes, BuffersFit, NEW r \in RolloutRanks, Generate(r) \/ GenerateLast(r)
  PROVE  BuffersFit' /\ buffer' = [q \in RolloutRanks |-> [s \in Stages |-> buffer'[q][s]]]
<1> DEFINE o == Head(env_channel[<<r, "train">>])
<1>1. PICK at, next : at = rollout_at[r] /\ next = After(at, 1, n_chunk_steps + 1)
  OBVIOUS
<1>2. PICK action :
        /\ Hears(r, "train") /\ RolloutGoesOn(r, "train", n_chunk_steps + 1)
        /\ at.step \in Int
        /\ action = IF at.step <= n_chunk_steps THEN <<[obs |-> o, policy |-> policy[r]]>> ELSE <<>>
        /\ buffer' = [buffer EXCEPT ![r][at.stage] = Collect(@, o, action)]
        /\ UNCHANGED <<policy, global_step, version>>
  <2>1. Hears(r, "train")
    BY DEF Generate, GenerateLast
  <2>2. at.step \in Int /\ n_chunk_steps \in Nat
    <3>1. n_chunk_steps \in Nat /\ rollout_at[r].step \in 1 .. n_chunk_steps + 1
      BY <2>1, HearsNext, PipelineAssumption
    <3> QED BY <1>1, <3>1
  <2>3. CASE Generate(r)
    BY <1>1, <2>2, <2>3 DEF Generate, runner
  <2>4. CASE GenerateLast(r)
    <3>1. ~(at.step <= n_chunk_steps)
      BY <1>1, <2>2, <2>4 DEF GenerateLast
    <3> QED BY <1>1, <2>2, <2>4, <3>1 DEF GenerateLast, runner
  <2> QED BY <2>3, <2>4
<1>3. /\ at \in Place("train") /\ at.step \in 1 .. n_chunk_steps + 1 /\ policy[r] = version
      /\ o = ObsAt(at.stage)[<<at.epoch, at.step>>]
  BY <1>1, <1>2, HearsNext
<1>4. /\ at.epoch \in Nat \ {0} /\ at.stage \in Stages /\ at.stage \in Nat /\ n_chunk_steps \in Nat
      /\ rollout_epoch \in Nat /\ \A x \in Stages : x \in Nat
  <2>1. at.epoch \in 1 .. Epochs("train") /\ at.stage \in Stages
    BY <1>3 DEF Place
  <2> QED BY <2>1, PipelineAssumption, StageAssumption DEF Epochs, Stages
<1> HIDE DEF o
<1>5. /\ \A q \in RolloutRanks \ {r} : buffer'[q] = buffer[q]
      /\ \A x \in Stages : x # at.stage => buffer'[r][x] = buffer[r][x]
      /\ buffer'[r][at.stage] = Collect(buffer[r][at.stage], o, action)
      /\ buffer' = [q \in RolloutRanks |-> [s \in Stages |-> buffer'[q][s]]]
  <2>1. /\ buffer = [q \in RolloutRanks |-> [s \in Stages |-> buffer[q][s]]]
    BY DEF DataTypes
  <2> QED BY <1>2, <1>4, <2>1
<1>6. \A x \in Stages : Filled(buffer[r][x], x, at.epoch, Heard(at, x))
  BY <1>1, <1>2 DEF BuffersFit, Hears
<1>7. Filled(buffer'[r][at.stage], at.stage, at.epoch, at.step)
  <2>0. PICK t \in 0 .. n_chunk_steps : t + 1 = at.step /\ t = Heard(at, at.stage)
    <3>1. at.step - 1 \in 0 .. n_chunk_steps /\ (at.step - 1) + 1 = at.step
          /\ at.step - 1 = Heard(at, at.stage)
      BY <1>3, <1>4 DEF Heard
    <3> QED BY <3>1
  <2>9. PICK e \in Nat \ {0} : e = at.epoch
    BY <1>4
  <2>8. PICK s : s = at.stage
    OBVIOUS
  <2>1. s = at.stage /\ e = at.epoch /\ t + 1 = at.step /\ t = Heard(at, s)
    BY <2>0, <2>8, <2>9
  <2>2. o = ObsAt(s)[<<e, t + 1>>] /\ Filled(buffer[r][s], s, e, t)
    BY <1>3, <1>4, <1>6, <2>1
  <2>3. action = IF t < n_chunk_steps THEN <<ActAt(s)[<<e, t + 1>>]>> ELSE <<>>
    <3>1. PICK k \in Nat : k = t + 1
      OBVIOUS
    <3>2. e \in Nat
      OBVIOUS
    <3>3. ActAt(s)[<<e, k>>] = [obs |-> ObsAt(s)[<<e, k>>], policy |-> version]
      BY <3>2, ActEntry
    <3>4. t < n_chunk_steps <=> at.step <= n_chunk_steps
      BY <1>4, <2>1
    <3> QED BY <1>2, <1>3, <2>2, <3>1, <3>3, <3>4
  <2>4. Filled(Collect(buffer[r][s], o, action), s, e, t + 1)
    BY <2>2, <2>3, FilledGrows
  <2> QED BY <1>5, <2>1, <2>4
<1>8. \A x \in Stages : Filled(buffer'[r][x], x, at.epoch, IF x <= at.stage THEN at.step ELSE at.step - 1)
  <2> SUFFICES ASSUME NEW x \in Stages
               PROVE  Filled(buffer'[r][x], x, at.epoch, IF x <= at.stage THEN at.step ELSE at.step - 1)
    OBVIOUS
  <2>1. PICK h : h = IF x <= at.stage THEN at.step ELSE at.step - 1
    OBVIOUS
  <2>2. x \in Nat
    BY <1>4
  <2>3. CASE x = at.stage
    <3>1. h = at.step
      BY <1>4, <2>1, <2>3
    <3> QED BY <1>7, <2>1, <2>3, <3>1
  <2>4. CASE x # at.stage
    <3>1. h = Heard(at, x)
      BY <1>4, <2>1, <2>2, <2>4 DEF Heard
    <3> QED BY <1>5, <1>6, <2>1, <2>4, <3>1
  <2> QED BY <2>3, <2>4
<1>9. \A x \in Stages :
           /\ next.epoch <= rollout_epoch => Filled(buffer'[r][x], x, next.epoch, Heard(next, x))
           /\ next.epoch > rollout_epoch => Complete(buffer'[r][x], x)
  <2>1. PICK b : b = buffer'[r]
    OBVIOUS
  <2>2. \A x \in Stages : Filled(b[x], x, at.epoch, IF x <= at.stage THEN at.step ELSE at.step - 1)
    BY <1>8, <2>1
  <2> QED BY <1>1, <1>3, <2>1, <2>2, StagesFilled
<1>10. /\ \A q \in RolloutRanks \ {r} : serving'[q] = serving[q] /\ rollout_at'[q] = rollout_at[q]
       /\ next.epoch \in Nat
       /\ next.epoch <= rollout_epoch => serving'[r] = "train" /\ rollout_at'[r] = next
       /\ next.epoch > rollout_epoch => serving'[r] = "send"
  <2>1. PerRank /\ Epochs("train") = rollout_epoch /\ "train" \in Modes /\ RolloutSteps("train") = n_chunk_steps + 1
    BY DEF LoopsFit, Epochs, Modes, RolloutSteps
  <2>2. next.epoch \in Nat
    BY <1>1, <1>3, <2>1, RolloutLoopsOn, PipelineAssumption
  <2> QED BY <1>1, <1>2, <1>4, <2>1, <2>2 DEF RolloutGoesOn, PerRank
<1>11. UNCHANGED <<RolloutRanks, Stages, rollout_epoch, n_chunk_steps>>
  BY DEF RolloutRanks, Stages
<1>12. \A rows, s, e, t : Filled(rows, s, e, t)' <=> Filled(rows, s, e, t)
  BY <1>2, FilledSame
<1>13. ASSUME NEW q \in RolloutRanks, NEW x \in Stages
       PROVE  /\ serving'[q] = "train" => Filled(buffer[q][x], x, rollout_at[q].epoch, Heard(rollout_at[q], x))'
              /\ serving'[q] # "train" => Complete(buffer[q][x], x)'
  <2>1. PICK rows, e, h : rows = buffer'[q][x] /\ e = rollout_at'[q].epoch /\ h = Heard(rollout_at'[q], x)
    OBVIOUS
  <2>2. /\ serving'[q] = "train" => Filled(rows, x, e, h)
        /\ serving'[q] # "train" => Complete(rows, x)
    <3>1. CASE q = r
      BY <1>4, <1>9, <1>10, <2>1, <3>1
    <3>2. CASE q # r
      BY <1>5, <1>10, <2>1, <3>2 DEF BuffersFit
    <3> QED BY <3>1, <3>2
  <2>3. Filled(rows, x, e, h)' <=> Filled(rows, x, e, h)
    BY <1>12
  <2>4. Complete(rows, x)' <=> Complete(rows, x)
    BY <1>12 DEF Complete
  <2>5. Filled(rows, x, e, h)' => Filled(buffer[q][x], x, rollout_at[q].epoch, Heard(rollout_at[q], x))'
    BY <2>1 DEF Filled, Heard
  <2>6. Complete(rows, x)' => Complete(buffer[q][x], x)'
    BY <2>1 DEF Complete, Filled
  <2> QED BY <2>2, <2>3, <2>4, <2>5, <2>6
<1> QED BY <1>5, <1>11, <1>13 DEF BuffersFit

-----------------------------------------------------------------------------
(* How the environments are dealt to ranks and parts.                       *)

LEMMA Divided ==
  ASSUME NEW w \in Nat, NEW m \in Nat \ {0}, w % m = 0
  PROVE  (w \div m) \in Nat /\ (w \div m) * m = w
OBVIOUS

(* What a sum of a multiple of m and a rest is divided by m, and its rest.  *)
LEMMA Division ==
  ASSUME NEW m \in Nat \ {0}, NEW x \in Nat, NEW y \in 0 .. m - 1
  PROVE  (x * m + y) \div m = x /\ (x * m + y) % m = y
OBVIOUS

LEMMA DivisionIs ==
  ASSUME NEW m \in Nat \ {0}, NEW n \in Nat
  PROVE  /\ (n \div m) \in Nat /\ (n % m) \in 0 .. m - 1
         /\ n = (n \div m) * m + (n % m)
OBVIOUS

LEMMA Multiplied ==
  ASSUME NEW a \in Nat \ {0}, NEW b \in Nat \ {0}
  PROVE  a * b \in Nat \ {0} /\ a * b = b * a
OBVIOUS

LEMMA LeastIsMin ==
  ASSUME NEW S \in SUBSET Nat, S # {}
  PROVE  Min(S) \in S
<1>1. PICK x \in S : \A y \in S : <<y, x>> \notin OpToRel(<, Nat)
  BY WFMin, NatLessThanWellFounded, Zenon
<1>3. \A y \in S : ~(y < x)
  BY <1>1, Zenon DEF OpToRel
<1>2. \A y \in S : x <= y
  BY <1>3
<1> QED BY <1>2 DEF Min

(* Both sides compute the same number of parts in all.                      *)
LEMMA SplitNumbers ==
  /\ send_num \in Nat \ {0} /\ Parts \in Nat \ {0} /\ Share \in Nat \ {0}
  /\ actor_num * Share = send_num * Parts
<1>1. /\ env_num \in Nat \ {0} /\ gather_num \in Nat \ {0} /\ stage_num \in Nat \ {0}
      /\ actor_num \in Nat \ {0}
  BY PipelineAssumption, CheckpointAssumption, StageAssumption
<1>2. send_num \in Nat \ {0}
  <2>1. env_num * gather_num \in Nat \ {0}
    BY <1>1, Multiplied
  <2> QED BY <1>1, <2>1, Multiplied DEF send_num
<1>3. PICK s \in Nat \ {0}, a \in Nat \ {0} : s = send_num /\ a = actor_num
  BY <1>1, <1>2
<1> DEFINE S == {n \in 1 .. a * s : n % a = 0 /\ n % s = 0}
<1>4. S = {n \in 1 .. s * a : n % s = 0 /\ n % a = 0}
  BY Multiplied
<1>5. a * s \in S
  <2>1. a * s \in Nat \ {0} /\ a * s = s * a
    BY Multiplied
  <2>2. (a * s) % s = 0 /\ (s * a) % a = 0
    <3>1. \A x, m \in Nat \ {0} : (x * m + 0) % m = 0 /\ x * m + 0 = x * m
      BY Division, Multiplied
    <3> QED BY <3>1
  <2> QED BY <2>1, <2>2
<1>6. PICK l \in S : l = Min(S)
  <2>1. S \in SUBSET Nat /\ S # {}
    <3>1. a * s \in Nat
      BY Multiplied
    <3> QED BY <1>5, <3>1
  <2> QED BY <2>1, LeastIsMin
<1>7. Parts = l \div s /\ Share = l \div a
  BY <1>3, <1>4, <1>6 DEF Parts, Share, compute_split_num
<1>8. l \in Nat \ {0} /\ l % a = 0 /\ l % s = 0
  BY <1>6
<1>9. /\ (l \div s) \in Nat /\ (l \div s) * s = l
      /\ (l \div a) \in Nat /\ (l \div a) * a = l
  BY <1>8, Divided
<1>10. /\ (l \div s) \in Nat \ {0} /\ (l \div a) \in Nat \ {0}
  BY <1>8, <1>9
<1> QED BY <1>2, <1>3, <1>7, <1>9, <1>10, Multiplied

(* The environments of a part. *)
Width == num_envs \div (gather_num * Parts)
Block(r) == (r % gather_num) * (Parts * Width)

LEMMA WidthIs ==
  /\ Width \in Nat /\ Parts * Width \in Nat /\ gather_num * (Parts * Width) = num_envs
  /\ gather_num \in Nat \ {0} /\ Parts \in Nat \ {0} /\ num_envs \in Nat \ {0} /\ Width # 0
<1>1. /\ gather_num \in Nat \ {0} /\ Parts \in Nat \ {0} /\ num_envs \in Nat \ {0}
  BY SplitNumbers, PipelineAssumption
<1>2. gather_num * Parts \in Nat \ {0}
  BY <1>1, Multiplied
<1>3. PICK w \in Nat : w = Width /\ w * (gather_num * Parts) = num_envs
  BY <1>1, <1>2, SplitAssumption, Divided DEF Width
<1>4. Parts * w \in Nat /\ gather_num * (Parts * w) = w * (gather_num * Parts)
  BY <1>1
<1>5. w # 0
  BY <1>1, <1>2, <1>3
<1> QED BY <1>1, <1>3, <1>4, <1>5

(* A piece of a sequence that divides evenly.                               *)
Piece(s, k, n, i) ==
  \E b \in Nat :
    /\ b = (i - 1) * n /\ b + n <= Len(s)
    /\ chunk(s, k, i) = [j \in 1 .. n |-> s[b + j]]
    /\ chunk(s, k, i) \in Seq(Nat) /\ Len(chunk(s, k, i)) = n

LEMMA ChunkIs ==
  ASSUME NEW s \in Seq(Nat), NEW k \in Nat \ {0}, NEW n \in Nat, Len(s) = k * n, NEW i \in 1 .. k
  PROVE  Piece(s, k, n, i)
<1>1. (Len(s) + k - 1) \div k = n
  <2>1. PICK m \in 0 .. k - 1 : m = k - 1
    OBVIOUS
  <2>2. (n * k + m) \div k = n
    BY Division
  <2>3. Len(s) + k - 1 = n * k + m
    BY <2>1
  <2> QED BY <2>2, <2>3
<1>2. PICK b \in Nat : b = (i - 1) * n /\ i * n = b + n /\ b + n <= Len(s)
  <2>1. PICK c \in Nat : c = i - 1 /\ i = c + 1
    OBVIOUS
  <2>2. PICK d \in Nat : k = c + 1 + d
    <3>1. k - c - 1 \in Nat /\ k = c + 1 + (k - c - 1)
      BY <2>1
    <3> QED BY <3>1
  <2>3. /\ c * n \in Nat /\ d * n \in Nat /\ (c + 1) * n = c * n + n
        /\ (c + 1 + d) * n = c * n + n + d * n /\ k * n = (c + 1 + d) * n
    BY <2>2
  <2> QED BY <2>1, <2>3
<1>3. chunk(s, k, i) = SubSeq(s, b + 1, b + n)
  <2>1. PICK e : e = (IF i * n < Len(s) THEN i * n ELSE Len(s))
    OBVIOUS
  <2>2. e = b + n
    BY <1>2, <2>1
  <2> QED BY <1>1, <1>2, <2>1, <2>2 DEF chunk
<1>4. PICK q : q = SubSeq(s, b + 1, b + n)
  OBVIOUS
<1>5. q \in Seq(Nat) /\ Len(q) = n /\ \A j \in 1 .. n : q[j] = s[b + j]
  <2>1. PICK l \in Nat : l = Len(s) /\ s \in [1 .. l -> Nat] /\ b + n <= l
    BY <1>2
  <2>2. q = [j \in 1 .. (b + n) - (b + 1) + 1 |-> s[j + (b + 1) - 1]]
    BY <1>2, <1>4, SubSeqProperties
  <2>3. (b + n) - (b + 1) + 1 = n /\ \A j \in 1 .. n : j + (b + 1) - 1 = b + j /\ b + j \in 1 .. l
    BY <2>1
  <2>4. q = [j \in 1 .. n |-> s[b + j]] /\ \A j \in 1 .. n : s[b + j] \in Nat
    BY <2>1, <2>2, <2>3
  <2>5. q \in [1 .. n -> Nat]
    BY <2>4
  <2> QED BY <2>4, <2>5
<1>6. q = [j \in 1 .. n |-> s[b + j]]
  BY <1>5
<1> QED BY <1>2, <1>3, <1>4, <1>5, <1>6 DEF Piece

LEMMA PartEnvsAre ==
  ASSUME NEW r \in RolloutRanks, NEW p \in 1 .. Parts
  PROVE  /\ Block(r) \in Nat /\ (p - 1) * Width \in Nat
         /\ PartEnvs(r, p) = [k \in 1 .. Width |-> Block(r) + (p - 1) * Width + k]
         /\ PartEnvs(r, p) \in Seq(Nat) /\ Len(PartEnvs(r, p)) = Width
         /\ \A k \in 1 .. Width : PartEnvs(r, p)[k] \in 1 .. num_envs
<1>1. PICK W \in Nat, P \in Nat \ {0}, G \in Nat \ {0}, N \in Nat, n \in Nat :
        W = Width /\ P = Parts /\ G = gather_num /\ N = num_envs /\ n = P * W /\ G * n = N
  BY WidthIs
<1>2. PICK g \in 0 .. G - 1 : g = r % gather_num
  <2>1. r \in Nat
    BY PipelineAssumption DEF RolloutRanks
  <2> QED BY <1>1, <2>1, DivisionIs
<1>3. PICK s : s = [i \in 1 .. N |-> i]
  OBVIOUS
<1>4. s \in Seq(Nat) /\ Len(s) = G * n
  BY <1>1, <1>3
<1>5. PICK q : q = chunk(s, G, g + 1)
  OBVIOUS
<1>6. PICK b \in Nat : b = g * n /\ b + n <= N /\ q = [j \in 1 .. n |-> s[b + j]] /\ q \in Seq(Nat) /\ Len(q) = n
  <2>1. PICK i \in 1 .. G : i = g + 1 /\ i - 1 = g
    <3>1. g + 1 \in 1 .. G /\ (g + 1) - 1 = g
      BY <1>2
    <3> QED BY <3>1
  <2>2. PICK b \in Nat :
           /\ b = (i - 1) * n /\ b + n <= Len(s)
           /\ chunk(s, G, i) = [j \in 1 .. n |-> s[b + j]]
           /\ chunk(s, G, i) \in Seq(Nat) /\ Len(chunk(s, G, i)) = n
    <3>1. Piece(s, G, n, i)
      BY <1>4, ChunkIs
    <3> QED BY <3>1 DEF Piece
  <2> QED BY <1>1, <1>4, <1>5, <2>1, <2>2
<1>7. q = [j \in 1 .. n |-> b + j]
  BY <1>1, <1>3, <1>6
<1>8. PICK x : x = chunk(q, P, p)
  OBVIOUS
<1>9. PICK c \in Nat : c = (p - 1) * W /\ c + W <= n /\ x = [k \in 1 .. W |-> q[c + k]] /\ x \in Seq(Nat) /\ Len(x) = W
  <2>1. p \in 1 .. P /\ Len(q) = P * W
    BY <1>1, <1>6
  <2>2. PICK c \in Nat :
           /\ c = (p - 1) * W /\ c + W <= Len(q)
           /\ chunk(q, P, p) = [k \in 1 .. W |-> q[c + k]]
           /\ chunk(q, P, p) \in Seq(Nat) /\ Len(chunk(q, P, p)) = W
    <3>1. Piece(q, P, W, p)
      BY <1>6, <2>1, ChunkIs
    <3> QED BY <3>1 DEF Piece
  <2> QED BY <1>1, <1>6, <1>8, <2>1, <2>2
<1>10. x = [k \in 1 .. W |-> b + c + k] /\ \A k \in 1 .. W : b + c + k \in 1 .. N
  <2>1. b + n <= N /\ c + W <= n
    BY <1>6, <1>9
  <2>2. \A k \in 1 .. W : c + k \in 1 .. n /\ b + (c + k) = b + c + k /\ b + c + k \in 1 .. N
    BY <2>1
  <2>3. \A k \in 1 .. W : q[c + k] = b + c + k
    BY <1>7, <2>2
  <2> QED BY <1>9, <2>2, <2>3
<1>11. PartEnvs(r, p) = x
  BY <1>1, <1>2, <1>3, <1>5, <1>8 DEF PartEnvs
<1>12. Block(r) = b /\ (p - 1) * Width = c
  BY <1>1, <1>2, <1>6, <1>9 DEF Block
<1> QED BY <1>1, <1>9, <1>10, <1>11, <1>12

(* Parts of a rank's stage have different environments.                     *)
LEMMA PartsDiffer ==
  ASSUME NEW r \in RolloutRanks, NEW p \in 1 .. Parts, NEW o \in 1 .. Parts, PartEnvs(r, p) = PartEnvs(r, o)
  PROVE  p = o
<1>1. PICK W \in Nat \ {0} : W = Width
  BY WidthIs
<1>2. PICK b \in Nat : b = Block(r)
  BY PartEnvsAre
<1>3. PICK c \in Nat, d \in Nat : c = (p - 1) * W /\ d = (o - 1) * W
  BY <1>1, PartEnvsAre
<1>4. PartEnvs(r, p)[1] = b + c + 1 /\ PartEnvs(r, o)[1] = b + d + 1
  BY <1>1, <1>2, <1>3, PartEnvsAre
<1>5. (p - 1) * W = (o - 1) * W
  BY <1>3, <1>4
<1>6. p - 1 \in Nat /\ o - 1 \in Nat /\ Parts \in Nat
  BY SplitNumbers
<1>7. \A m, n \in Nat : m * W = n * W => m = n
  <2>1. \A m, n \in Nat : (m * W + 0) \div W = m /\ m * W + 0 = m * W
    BY Division
  <2> QED BY <2>1
<1>8. p - 1 = o - 1
  BY <1>5, <1>6, <1>7
<1> QED BY <1>6, <1>8

PartIds == RolloutRanks \X (Stages \X (1 .. Parts))
AllSlots == ActorRanks \X (1 .. Share)

LEMMA RangeSize ==
  ASSUME NEW n \in Nat \ {0}
  PROVE  /\ IsFiniteSet(1 .. n) /\ Cardinality(1 .. n) = n
         /\ IsFiniteSet(0 .. n - 1) /\ Cardinality(0 .. n - 1) = n
BY FS_Interval

(* There are as many parts as places for them at the actor ranks.           *)
LEMMA AsManySlots ==
  /\ IsFiniteSet(PartIds) /\ IsFiniteSet(AllSlots)
  /\ Cardinality(PartIds) = send_num * Parts /\ Cardinality(AllSlots) = actor_num * Share
  /\ Cardinality(PartIds) = Cardinality(AllSlots)
<1>1. /\ env_num \in Nat \ {0} /\ gather_num \in Nat \ {0} /\ stage_num \in Nat \ {0}
      /\ actor_num \in Nat \ {0} /\ Parts \in Nat \ {0} /\ Share \in Nat \ {0}
      /\ actor_num * Share = send_num * Parts
  BY PipelineAssumption, CheckpointAssumption, StageAssumption, SplitNumbers
<1>2. PICK n \in Nat \ {0} : n = env_num * gather_num
  BY <1>1, Multiplied
<1>3. IsFiniteSet(RolloutRanks) /\ Cardinality(RolloutRanks) = n
  BY <1>2, RangeSize DEF RolloutRanks
<1>4. IsFiniteSet(Stages \X (1 .. Parts)) /\ Cardinality(Stages \X (1 .. Parts)) = stage_num * Parts
  <2>1. /\ IsFiniteSet(Stages) /\ Cardinality(Stages) = stage_num
        /\ IsFiniteSet(1 .. Parts) /\ Cardinality(1 .. Parts) = Parts
    BY <1>1, RangeSize DEF Stages
  <2> QED BY <2>1, FS_Product
<1>5. IsFiniteSet(PartIds) /\ Cardinality(PartIds) = n * (stage_num * Parts)
  BY <1>3, <1>4, FS_Product DEF PartIds
<1>6. IsFiniteSet(AllSlots) /\ Cardinality(AllSlots) = actor_num * Share
  <2>1. /\ IsFiniteSet(ActorRanks) /\ Cardinality(ActorRanks) = actor_num
        /\ IsFiniteSet(1 .. Share) /\ Cardinality(1 .. Share) = Share
    BY <1>1, RangeSize DEF ActorRanks
  <2> QED BY <2>1, FS_Product DEF AllSlots
<1>7. n * (stage_num * Parts) = send_num * Parts
  <2>1. \A x, y, z \in Nat : x * (y * z) = (x * y) * z
    OBVIOUS
  <2>2. send_num = n * stage_num
    BY <1>2 DEF send_num
  <2>3. n * (stage_num * Parts) = (n * stage_num) * Parts
    BY <1>1, <2>1
  <2> QED BY <2>2, <2>3
<1> QED BY <1>1, <1>5, <1>6, <1>7

(* When every actor rank has its share, no part is missing.                 *)
LEMMA NoneMissing ==
  ASSUME BatchesFit, \A a \in ActorRanks : Len(rollout_batch[a]) = Share
  PROVE  \A r \in RolloutRanks : \A s \in Stages : \A p \in 1 .. Parts :
           \E a \in Slots : Id(In(a)) = <<r, s, PartEnvs(r, p)>>
<1>1. Slots = AllSlots
  <2>1. Share \in Nat
    BY SplitNumbers
  <2>2. \A a \in AllSlots : a[1] \in ActorRanks /\ a[2] <= Len(rollout_batch[a[1]])
    BY <2>1 DEF AllSlots
  <2> QED BY <2>2 DEF Slots, AllSlots
<1> DEFINE num(x) == CHOOSE p \in 1 .. Parts : x.envs = PartEnvs(x.rank, p)
           key(x) == <<x.rank, <<x.stage, num(x)>>>>
<1>2. ASSUME NEW a \in AllSlots
      PROVE  /\ key(In(a)) \in PartIds
             /\ Id(In(a)) = <<key(In(a))[1], key(In(a))[2][1], PartEnvs(key(In(a))[1], key(In(a))[2][2])>>
  <2>1. PICK x : x = In(a) /\ PartFits(x)
    BY <1>1 DEF BatchesFit
  <2>2. num(x) \in 1 .. Parts /\ x.envs = PartEnvs(x.rank, num(x))
    BY <2>1 DEF PartFits
  <2>3. PICK n : n = num(x)
    OBVIOUS
  <2>4. PICK k : k = <<x.rank, <<x.stage, n>>>>
    OBVIOUS
  <2>5. k[1] = x.rank /\ k[2][1] = x.stage /\ k[2][2] = n /\ k \in PartIds
    BY <2>1, <2>2, <2>3, <2>4 DEF PartFits, PartIds
  <2> QED BY <2>1, <2>2, <2>3, <2>4, <2>5 DEF Id
<1> HIDE DEF key
<1> DEFINE f == [a \in AllSlots |-> key(In(a))]
<1>3. f \in Injection(AllSlots, PartIds)
  <2>1. f \in [AllSlots -> PartIds]
    BY <1>2
  <2>2. ASSUME NEW a \in AllSlots, NEW b \in AllSlots, f[a] = f[b] PROVE a = b
    <3>1. key(In(a)) = key(In(b))
      BY <2>2
    <3>2. Id(In(a)) = Id(In(b))
      BY <1>2, <3>1
    <3> QED BY <1>1, <3>2 DEF BatchesFit
  <2> QED BY <2>1, <2>2 DEF Injection, IsInjective
<1>4. f \in Surjection(AllSlots, PartIds)
  BY <1>3, AsManySlots, FS_Injection
<1>5. \A k \in PartIds : \E a \in AllSlots : f[a] = k
  BY <1>4 DEF Surjection
<1> SUFFICES ASSUME NEW r \in RolloutRanks, NEW s \in Stages, NEW p \in 1 .. Parts
             PROVE  \E a \in AllSlots : Id(In(a)) = <<r, s, PartEnvs(r, p)>>
  BY <1>1
<1>6. PICK k : k = <<r, <<s, p>>>>
  OBVIOUS
<1>7. k \in PartIds /\ k[1] = r /\ k[2][1] = s /\ k[2][2] = p
  BY <1>6 DEF PartIds
<1>8. PICK a \in AllSlots : f[a] = k
  BY <1>5, <1>7
<1>9. key(In(a)) = k
  BY <1>8
<1> QED BY <1>2, <1>7, <1>9

-----------------------------------------------------------------------------
(* The steps keep DataFit.                                                  *)

(* What does not change the step and the weights leaves parts what they are. *)
LEMMA PartSame ==
  ASSUME UNCHANGED <<global_step, version>>
  PROVE  /\ \A rows, s : Complete(rows, s)' <=> Complete(rows, s)
         /\ \A x : PartFits(x)' <=> PartFits(x)
<1>1. ASSUME NEW rows, NEW s PROVE Complete(rows, s)' <=> Complete(rows, s)
  BY FilledSame DEF Complete
<1>2. ASSUME NEW x PROVE PartFits(x)' <=> PartFits(x)
  <2>1. Complete(x.rows, x.stage)' <=> Complete(x.rows, x.stage)
    BY <1>1
  <2> QED BY <2>1 DEF PartFits
<1> QED BY <1>1, <1>2

LEMMA BatchesSame ==
  ASSUME BatchesFit, UNCHANGED <<global_step, version, rollout_batch>>
  PROVE  BatchesFit'
<1>1. Slots' = Slots /\ \A a : In(a)' = In(a)
  BY DEF Slots, In
<1>2. \A x : PartFits(x)' <=> PartFits(x)
  BY PartSame
<1>3. ASSUME NEW a \in Slots PROVE PartFits(In(a))'
  <2>1. PICK x : x = In(a) /\ PartFits(x)
    BY DEF BatchesFit
  <2>2. PartFits(x)'
    BY <1>2, <2>1
  <2>3. x = In(a)'
    BY <1>1, <2>1
  <2> QED BY <2>2, <2>3 DEF PartFits, Complete, Filled
<1>4. ASSUME NEW a \in Slots, NEW b \in Slots, Id(In(a))' = Id(In(b))' PROVE a = b
  <2>1. Id(In(a)) = Id(In(b))
    BY <1>1, <1>4 DEF Id
  <2> QED BY <2>1 DEF BatchesFit
<1> QED BY <1>1, <1>3, <1>4 DEF BatchesFit

(* A channel that stays, while more is known to have been sent.             *)
LEMMA ChannelSame ==
  ASSUME ChannelFits, UNCHANGED <<global_step, version, actor_channel, rollout_batch>>,
         BatchesFit, \A r \in RolloutRanks : \A s \in Stages : Sent(r, s) => Sent(r, s)'
  PROVE  ChannelFits'
<1>1. Slots' = Slots /\ \A a : In(a)' = In(a)
  BY DEF Slots, In
<1>2. \A x : PartFits(x)' <=> PartFits(x)
  BY PartSame
<1>3. ASSUME NEW k \in DOMAIN actor_channel
      PROVE  PartFits(actor_channel[k])' /\ Sent(actor_channel[k].rank, actor_channel[k].stage)'
  <2>1. PICK x : x = actor_channel[k] /\ PartFits(x) /\ Sent(x.rank, x.stage)
    BY DEF ChannelFits
  <2>2. PartFits(x)' /\ Sent(x.rank, x.stage)'
    BY <1>2, <2>1 DEF PartFits
  <2>3. x = actor_channel[k]'
    BY <2>1
  <2> QED BY <2>2, <2>3 DEF PartFits, Complete, Filled, Sent
<1>4. ASSUME NEW a \in Slots PROVE Sent(In(a).rank, In(a).stage)'
  <2>1. PICK x : x = In(a) /\ PartFits(x) /\ Sent(x.rank, x.stage)
    BY DEF ChannelFits, BatchesFit
  <2>2. Sent(x.rank, x.stage)'
    BY <2>1 DEF PartFits
  <2>3. x = In(a)'
    BY <1>1, <2>1
  <2> QED BY <2>2, <2>3 DEF Sent
<1>5. /\ \A k, l \in DOMAIN actor_channel : Id(actor_channel[k])' = Id(actor_channel[l])' => k = l
      /\ \A a \in Slots : \A k \in DOMAIN actor_channel : Id(In(a))' # Id(actor_channel[k])'
  <2>1. /\ \A a : Id(In(a))' = Id(In(a))
        /\ \A k : Id(actor_channel[k])' = Id(actor_channel[k])
    BY <1>1 DEF Id
  <2> QED BY <2>1 DEF ChannelFits
<1> QED BY <1>1, <1>3, <1>4, <1>5 DEF ChannelFits

(* A rank that goes on has not sent anything. *)
LEMMA CollectKeepsChannel ==
  ASSUME LoopsFit, ChannelFits, BatchesFit, NEW r \in RolloutRanks, Generate(r) \/ GenerateLast(r)
  PROVE  BatchesFit' /\ ChannelFits'
<1>1. /\ UNCHANGED <<global_step, version, actor_channel, rollout_batch>>
      /\ serving[r] = "train" /\ RolloutGoesOn(r, "train", n_chunk_steps + 1)
  BY DEF Generate, GenerateLast, runner, Hears
<1>2. ASSUME NEW q \in RolloutRanks, NEW s \in Stages, Sent(q, s) PROVE Sent(q, s)'
  <2>1. q # r
    BY <1>1, <1>2 DEF Sent
  <2>2. serving'[q] = serving[q] /\ rollout_at'[q] = rollout_at[q]
    BY <1>1, <2>1 DEF RolloutGoesOn, LoopsFit, PerRank
  <2> QED BY <1>2, <2>2 DEF Sent
<1> QED BY <1>1, <1>2, BatchesSame, ChannelSame

LEMMA SendIs ==
  ASSUME LoopsFit, NEW r \in RolloutRanks, SendRolloutBatch(r)
  PROVE  /\ pc = "generate" /\ rollout_at[r].stage \in Stages /\ serving[r] = "send"
         /\ UNCHANGED <<pc, global_step, version, buffer, rollout_batch>>
         /\ \A q \in RolloutRanks \ {r} : serving'[q] = serving[q] /\ rollout_at'[q] = rollout_at[q]
         /\ serving'[r] \in {"send", "none"}
         /\ \A s \in Stages : Sent(r, s)' <=> Sent(r, s) \/ s = rollout_at[r].stage
         /\ ~Sent(r, rollout_at[r].stage)
<1>1. /\ UNCHANGED <<pc, global_step, version, buffer, rollout_batch>> /\ serving[r] = "send"
  BY DEF SendRolloutBatch, runner
<1>2. Running("train") /\ CallsFit("train") /\ PerRank
  BY <1>1, RolloutInMode DEF Modes, LoopsFit
<1>3. PICK s \in Stages : rollout_at[r] = [Start(1) EXCEPT !.stage = s]
  BY <1>1, <1>2 DEF CallsFit, RolloutFits
<1>4. rollout_at[r].stage = s /\ s \in Nat /\ s >= 1 /\ s <= stage_num /\ \A x \in Stages : x \in Nat /\ x <= stage_num
  BY <1>3, StageAssumption DEF Start, Stages
<1>5. /\ rollout_at' = [rollout_at EXCEPT ![r].stage = IF s = stage_num THEN 1 ELSE s + 1]
      /\ serving' = [serving EXCEPT ![r] = IF s = stage_num THEN "none" ELSE "send"]
  BY <1>4 DEF SendRolloutBatch
<1>6. /\ serving'[r] = IF s = stage_num THEN "none" ELSE "send"
      /\ s # stage_num => rollout_at'[r].stage = s + 1
      /\ \A q \in RolloutRanks \ {r} : serving'[q] = serving[q] /\ rollout_at'[q] = rollout_at[q]
  <2>1. rollout_at[r] = [rollout_at[r] EXCEPT !.stage = s]
    BY <1>3, <1>4
  <2> QED BY <1>2, <1>3, <1>5, <2>1 DEF PerRank, Start
<1>7. ASSUME NEW x \in Stages PROVE Sent(r, x)' <=> Sent(r, x) \/ x = s
  <2>1. Sent(r, x) <=> x < s
    BY <1>1, <1>4 DEF Sent
  <2>2. Sent(r, x)' <=> x <= s
    BY <1>4, <1>6 DEF Sent
  <2> QED BY <1>4, <2>1, <2>2
<1>8. ~Sent(r, s)
  BY <1>1, <1>4 DEF Sent
<1>9. pc = "generate"
  BY <1>2 DEF Running
<1> QED BY <1>1, <1>4, <1>6, <1>7, <1>8, <1>9

(* The channel after a stage's parts have been sent. *)
LEMMA SendAppends ==
  ASSUME DataTypes, NEW r \in RolloutRanks, SendRolloutBatch(r)
  PROVE  LET s == rollout_at[r].stage
             n == Len(actor_channel) IN
         /\ IsSeq(actor_channel)' /\ n \in Nat /\ DOMAIN actor_channel' = 1 .. n + Parts
         /\ DOMAIN actor_channel = 1 .. n
         /\ \A k \in 1 .. n : actor_channel'[k] = actor_channel[k]
         /\ \A p \in 1 .. Parts : actor_channel'[n + p] =
              [rank |-> r, stage |-> s, envs |-> PartEnvs(r, p), rows |-> buffer[r][s]]
<1>1. PICK s, b : s = rollout_at[r].stage /\ b = buffer[r][s]
  OBVIOUS
<1>2. PICK P \in Nat : P = Parts
  BY SplitNumbers
<1>3. PICK new : new = [p \in 1 .. P |-> [rank |-> r, stage |-> s, envs |-> PartEnvs(r, p), rows |-> b]]
  OBVIOUS
<1>4. actor_channel' = actor_channel \o new
  BY <1>1, <1>2, <1>3 DEF SendRolloutBatch
<1>5. PICK S : actor_channel \in Seq(S) /\ new \in Seq(S)
  <2>1. actor_channel \in Seq(Elems(actor_channel))
    BY DEF DataTypes, IsSeq
  <2>2. PICK S : S = Elems(actor_channel) \cup {new[p] : p \in 1 .. P}
    OBVIOUS
  <2>3. new \in Seq(S)
    <3>1. new \in [1 .. P -> S]
      BY <1>3, <2>2
    <3> QED BY <3>1
  <2>4. actor_channel \in Seq(S)
    <3>1. Elems(actor_channel) \subseteq S
      BY <2>2
    <3> QED BY <2>1, <3>1
  <2> QED BY <2>3, <2>4
<1>10. PICK c : c = actor_channel \o new
  OBVIOUS
<1>6. PICK n \in Nat : n = Len(actor_channel)
  BY <1>5
<1>7. /\ c \in Seq(S) /\ DOMAIN c = 1 .. n + P /\ DOMAIN actor_channel = 1 .. n
      /\ \A k \in 1 .. n : c[k] = actor_channel[k]
      /\ \A p \in 1 .. P : c[n + p] = new[p]
  BY <1>3, <1>5, <1>6, <1>10
<1>8. IsSeq(c)
  BY <1>7, SeqOfElems
<1>9. IsSeq(actor_channel)'
  BY <1>4, <1>10, <1>8 DEF IsSeq, Elems
<1> QED BY <1>1, <1>2, <1>3, <1>4, <1>6, <1>7, <1>9, <1>10

LEMMA SendKeepsData ==
  ASSUME LoopsFit, DataTypes, BuffersFit, ChannelFits, BatchesFit, NEW r \in RolloutRanks, SendRolloutBatch(r)
  PROVE  BuffersFit' /\ ChannelFits' /\ BatchesFit' /\ DataTypes'
<1>1. /\ rollout_at[r].stage \in Stages /\ serving[r] = "send"
      /\ UNCHANGED <<pc, global_step, version, buffer, rollout_batch>>
      /\ \A q \in RolloutRanks \ {r} : serving'[q] = serving[q] /\ rollout_at'[q] = rollout_at[q]
      /\ serving'[r] \in {"send", "none"}
  BY SendIs
<1>2. PICK s \in Stages : s = rollout_at[r].stage
  BY <1>1
<1>3. ~Sent(r, s) /\ \A x \in Stages : Sent(r, x)' <=> Sent(r, x) \/ x = s
  BY <1>2, SendIs
<1>4. PICK n \in Nat, P \in Nat : n = Len(actor_channel) /\ P = Parts
  BY SplitNumbers, SendAppends
<1>5. /\ IsSeq(actor_channel)' /\ DOMAIN actor_channel' = 1 .. n + P /\ DOMAIN actor_channel = 1 .. n
      /\ \A k \in 1 .. n : actor_channel'[k] = actor_channel[k]
      /\ \A p \in 1 .. P : actor_channel'[n + p] =
              [rank |-> r, stage |-> s, envs |-> PartEnvs(r, p), rows |-> buffer[r][s]]
  BY <1>2, <1>4, SendAppends
<1>6. BatchesFit'
  BY <1>1, BatchesSame
<1>7. DataTypes'
  <2>1. /\ UNCHANGED <<RolloutRanks, Stages, ActorRanks, Share>>
        /\ \A a : IsSeq(rollout_batch[a])' <=> IsSeq(rollout_batch[a])
    BY <1>1 DEF IsSeq, Elems, ActorRanks, RolloutRanks, Stages, Share
  <2> QED BY <1>1, <1>5, <2>1 DEF DataTypes
<1>8. BuffersFit'
  <2>1. UNCHANGED <<RolloutRanks, Stages>>
    BY DEF RolloutRanks, Stages
  <2>2. ASSUME NEW q \in RolloutRanks, NEW x \in Stages
        PROVE  /\ serving'[q] = "train" => Filled(buffer[q][x], x, rollout_at[q].epoch, Heard(rollout_at[q], x))'
               /\ serving'[q] # "train" => Complete(buffer[q][x], x)'
    <3>1. PICK rows, e, h : rows = buffer[q][x] /\ e = rollout_at[q].epoch /\ h = Heard(rollout_at[q], x)
      OBVIOUS
    <3>2. CASE serving'[q] = "train"
      <4>1. q # r /\ serving[q] = "train" /\ rollout_at'[q] = rollout_at[q]
        BY <1>1, <3>2
      <4>2. Filled(rows, x, e, h)
        BY <3>1, <4>1 DEF BuffersFit
      <4>3. Filled(rows, x, e, h)'
        BY <1>1, <4>2, FilledSame
      <4>4. rows = buffer[q][x]' /\ e = rollout_at[q].epoch' /\ h = Heard(rollout_at[q], x)'
        BY <1>1, <3>1, <4>1 DEF Heard
      <4> QED BY <3>2, <4>3, <4>4 DEF Filled
    <3>3. CASE serving'[q] # "train"
      <4>1. serving[q] # "train"
        BY <1>1, <3>3
      <4>2. Complete(rows, x)
        BY <3>1, <4>1 DEF BuffersFit
      <4>3. Complete(rows, x)'
        BY <1>1, <4>2, PartSame
      <4>4. rows = buffer[q][x]'
        BY <1>1, <3>1
      <4> QED BY <3>3, <4>3, <4>4 DEF Complete, Filled
    <3> QED BY <3>2, <3>3
  <2> QED BY <2>1, <2>2 DEF BuffersFit
<1>9. \A q \in RolloutRanks : \A x \in Stages : Sent(q, x) => Sent(q, x)'
  <2> SUFFICES ASSUME NEW q \in RolloutRanks, NEW x \in Stages, Sent(q, x) PROVE Sent(q, x)'
    OBVIOUS
  <2>1. CASE q = r
    BY <1>3, <2>1
  <2>2. CASE q # r
    BY <1>1, <2>2 DEF Sent
  <2> QED BY <2>1, <2>2
<1>10. ASSUME NEW p \in 1 .. P
       PROVE  /\ PartFits(actor_channel'[n + p]) /\ Sent(r, s)'
              /\ actor_channel'[n + p].rank = r /\ actor_channel'[n + p].stage = s
              /\ Id(actor_channel'[n + p]) = <<r, s, PartEnvs(r, p)>>
  <2>1. PICK x : x = actor_channel'[n + p]
    OBVIOUS
  <2>2. x = [rank |-> r, stage |-> s, envs |-> PartEnvs(r, p), rows |-> buffer[r][s]]
    BY <1>5, <2>1
  <2>3. Complete(buffer[r][s], s)
    BY <1>1 DEF BuffersFit
  <2> QED BY <1>3, <1>4, <2>1, <2>2, <2>3 DEF PartFits, Id
<1>11. \A k \in 1 .. n : PartFits(actor_channel'[k]) /\ Sent(actor_channel'[k].rank, actor_channel'[k].stage)
  BY <1>5 DEF ChannelFits
<1>12. \A k \in 1 .. n + P : k \in 1 .. n \/ \E p \in 1 .. P : k = n + p
  <2> SUFFICES ASSUME NEW k \in 1 .. n + P, k \notin 1 .. n PROVE \E p \in 1 .. P : k = n + p
    OBVIOUS
  <2>1. k - n \in 1 .. P /\ k = n + (k - n)
    OBVIOUS
  <2> QED BY <2>1
<1>13. ASSUME NEW k \in 1 .. n + P
       PROVE  \A x : x = actor_channel'[k] => PartFits(x) /\ Sent(x.rank, x.stage)'
  <2> SUFFICES ASSUME NEW x, x = actor_channel'[k] PROVE PartFits(x) /\ Sent(x.rank, x.stage)'
    OBVIOUS
  <2>1. CASE k \in 1 .. n
    <3>1. x = actor_channel'[k]
      OBVIOUS
    <3>2. PartFits(x) /\ Sent(x.rank, x.stage)
      BY <1>11, <2>1, <3>1
    <3>3. Sent(x.rank, x.stage)'
      BY <1>9, <3>2 DEF PartFits
    <3> QED BY <3>1, <3>2, <3>3
  <2>2. CASE \E p \in 1 .. P : k = n + p
    <3>1. PartFits(x) /\ Sent(r, s)' /\ x.rank = r /\ x.stage = s
      BY <1>10, <2>2
    <3> QED BY <3>1
  <2> QED BY <1>12, <2>1, <2>2
<1>14. ASSUME NEW k \in 1 .. n + P, NEW l \in 1 .. n + P, Id(actor_channel'[k]) = Id(actor_channel'[l]) PROVE k = l
  <2>1. CASE k \in 1 .. n /\ l \in 1 .. n
    BY <1>5, <1>14, <2>1 DEF ChannelFits
  <2>2. ASSUME NEW i \in 1 .. n, NEW p \in 1 .. P PROVE Id(actor_channel'[i]) # Id(actor_channel'[n + p])
    <3>1. PICK x : x = actor_channel'[i]
      OBVIOUS
    <3>2. Sent(x.rank, x.stage)
      BY <1>11, <3>1
    <3>3. <<x.rank, x.stage>> # <<r, s>>
      BY <1>3, <3>2
    <3>4. Id(actor_channel'[n + p]) = <<r, s, PartEnvs(r, p)>> /\ Id(x) = <<x.rank, x.stage, x.envs>>
      BY <1>10 DEF Id
    <3> QED BY <3>1, <3>3, <3>4
  <2>3. ASSUME NEW p \in 1 .. P, NEW o \in 1 .. P, Id(actor_channel'[n + p]) = Id(actor_channel'[n + o])
        PROVE  p = o
    <3>1. PartEnvs(r, p) = PartEnvs(r, o)
      BY <1>10, <2>3
    <3> QED BY <1>4, <3>1, PartsDiffer
  <2>4. CASE k \notin 1 .. n /\ l \notin 1 .. n
    <3>1. PICK p \in 1 .. P : k = n + p
      BY <1>12, <2>4
    <3>2. PICK o \in 1 .. P : l = n + o
      BY <1>12, <2>4
    <3> QED BY <1>14, <2>3, <3>1, <3>2
  <2>5. CASE k \in 1 .. n /\ l \notin 1 .. n
    BY <1>12, <1>14, <2>2, <2>5
  <2>6. CASE k \notin 1 .. n /\ l \in 1 .. n
    BY <1>12, <1>14, <2>2, <2>6
  <2> QED BY <2>1, <2>4, <2>5, <2>6
<1>15. Slots' = Slots /\ \A a : In(a)' = In(a)
  BY <1>1 DEF Slots, In
<1>16. ASSUME NEW a \in Slots
       PROVE  /\ Sent(In(a).rank, In(a).stage)'
              /\ \A k \in 1 .. n + P : Id(In(a)) # Id(actor_channel'[k])
  <2>1. PICK x : x = In(a) /\ PartFits(x) /\ Sent(x.rank, x.stage)
    BY DEF ChannelFits, BatchesFit
  <2>2. Sent(x.rank, x.stage)'
    BY <1>9, <2>1 DEF PartFits
  <2>3. Sent(In(a).rank, In(a).stage)'
    BY <1>15, <2>1, <2>2
  <2>4. ASSUME NEW k \in 1 .. n + P PROVE Id(x) # Id(actor_channel'[k])
    <3>1. CASE k \in 1 .. n
      BY <1>5, <2>1, <3>1 DEF ChannelFits
    <3>2. CASE \E p \in 1 .. P : k = n + p
      <4>1. <<x.rank, x.stage>> # <<r, s>>
        BY <1>3, <2>1
      <4>2. PICK p \in 1 .. P : k = n + p
        BY <3>2
      <4>3. Id(actor_channel'[k]) = <<r, s, PartEnvs(r, p)>> /\ Id(x) = <<x.rank, x.stage, x.envs>>
        BY <1>10, <4>2 DEF Id
      <4> QED BY <4>1, <4>3
    <3> QED BY <1>12, <3>1, <3>2
  <2> QED BY <2>1, <2>3, <2>4
<1>17. ASSUME NEW k \in 1 .. n + P
       PROVE  PartFits(actor_channel[k])' /\ Sent(actor_channel[k].rank, actor_channel[k].stage)'
  <2>0. PICK x : x = actor_channel'[k]
    OBVIOUS
  <2>1. x = actor_channel'[k] /\ PartFits(x) /\ Sent(x.rank, x.stage)'
    BY <1>13, <2>0
  <2>2. PartFits(x)'
    BY <1>1, <2>1, PartSame
  <2> QED BY <2>1, <2>2 DEF PartFits, Complete, Filled, Sent
<1>18. ChannelFits'
  <2>1. /\ \A k : Id(actor_channel[k])' = Id(actor_channel'[k])
        /\ \A a : Id(In(a))' = Id(In(a))
    BY <1>15 DEF Id
  <2>2. DOMAIN actor_channel' = 1 .. n + P
    BY <1>5
  <2>3. \A a \in Slots : Sent(In(a).rank, In(a).stage)'
    BY <1>16
  <2> QED BY <1>14, <1>15, <1>16, <1>17, <2>1, <2>2, <2>3 DEF ChannelFits
<1> QED BY <1>6, <1>7, <1>8, <1>18

(* A part moves from the channel to the rank that takes it. *)
LEMMA RecvIs ==
  ASSUME DataTypes, NEW a \in ActorRanks, recv_rollout_batch(a)
  PROVE  \E n \in 0 .. Share - 1, l \in Nat :
           /\ n = Len(rollout_batch[a]) /\ DOMAIN actor_channel = 1 .. l + 1
           /\ DOMAIN actor_channel' = 1 .. l
           /\ \A k \in 1 .. l : actor_channel'[k] = actor_channel[k + 1]
           /\ \A b \in ActorRanks \ {a} : rollout_batch'[b] = rollout_batch[b]
           /\ Len(rollout_batch'[a]) = n + 1
           /\ \A k \in 1 .. n : rollout_batch'[a][k] = rollout_batch[a][k]
           /\ rollout_batch'[a][n + 1] = actor_channel[1]
           /\ IsSeq(actor_channel') /\ IsSeq(rollout_batch'[a])
           /\ rollout_batch' = [b \in ActorRanks |-> rollout_batch'[b]]
<1>1. PICK q, m, c : q = actor_channel /\ m = rollout_batch[a] /\ c = actor_channel'
  OBVIOUS
<1>2. /\ q # <<>> /\ Len(m) < Share
      /\ rollout_batch' = [rollout_batch EXCEPT ![a] = Append(m, Head(q))] /\ c = Tail(q)
      /\ rollout_batch = [b \in ActorRanks |-> rollout_batch[b]]
      /\ IsSeq(q) /\ IsSeq(m)
  BY <1>1 DEF recv_rollout_batch, DataTypes
<1>3. PICK S : S = Elems(q) \cup Elems(m)
  OBVIOUS
<1>4. q \in Seq(S) /\ m \in Seq(S)
  <2>1. q \in Seq(Elems(q)) /\ m \in Seq(Elems(m)) /\ Elems(q) \subseteq S /\ Elems(m) \subseteq S
    BY <1>2, <1>3 DEF IsSeq
  <2>2. q \in Seq(S)
    BY <2>1
  <2>3. m \in Seq(S)
    BY <2>1
  <2> QED BY <2>2, <2>3
<1>5. PICK l \in Nat : DOMAIN q = 1 .. l + 1 /\ Len(q) = l + 1
  <2>1. Len(q) - 1 \in Nat /\ (Len(q) - 1) + 1 = Len(q) /\ DOMAIN q = 1 .. Len(q)
    BY <1>2, <1>4
  <2> QED BY <2>1
<1>6. /\ c \in Seq(S) /\ DOMAIN c = 1 .. l /\ Head(q) = q[1] /\ q[1] \in S
      /\ \A k \in 1 .. l : c[k] = q[k + 1]
  BY <1>2, <1>4, <1>5
<1>7. PICK n \in 0 .. Share - 1 : n = Len(m)
  <2>1. Len(m) \in Nat /\ Share \in Nat
    BY <1>4, SplitNumbers
  <2>2. Len(m) < Share
    BY <1>2
  <2> QED BY <2>1, <2>2
<1>8. PICK d : d = Append(m, q[1])
  OBVIOUS
<1>9. /\ d \in Seq(S) /\ Len(d) = n + 1 /\ d[n + 1] = q[1]
      /\ \A k \in 1 .. n : d[k] = m[k]
  BY <1>4, <1>6, <1>7, <1>8
<1>10. /\ \A b \in ActorRanks \ {a} : rollout_batch'[b] = rollout_batch[b]
       /\ rollout_batch'[a] = d
       /\ rollout_batch' = [b \in ActorRanks |-> rollout_batch'[b]]
  BY <1>2, <1>6, <1>8
<1>11. IsSeq(c) /\ IsSeq(d)
  BY <1>6, <1>9, SeqOfElems
<1> QED BY <1>1, <1>5, <1>6, <1>7, <1>9, <1>10, <1>11

LEMMA RecvKeepsData ==
  ASSUME DataTypes, ChannelFits, BatchesFit, NEW a \in ActorRanks, recv_rollout_batch(a)
  PROVE  ChannelFits' /\ BatchesFit' /\ DataTypes'
<1>1. UNCHANGED <<pc, global_step, version, buffer, serving, rollout_at>>
  BY DEF recv_rollout_batch, runner, rollouts
<1>2. PICK n \in 0 .. Share - 1, l \in Nat :
           /\ n = Len(rollout_batch[a]) /\ DOMAIN actor_channel = 1 .. l + 1
           /\ DOMAIN actor_channel' = 1 .. l
           /\ \A k \in 1 .. l : actor_channel'[k] = actor_channel[k + 1]
           /\ \A b \in ActorRanks \ {a} : rollout_batch'[b] = rollout_batch[b]
           /\ Len(rollout_batch'[a]) = n + 1
           /\ \A k \in 1 .. n : rollout_batch'[a][k] = rollout_batch[a][k]
           /\ rollout_batch'[a][n + 1] = actor_channel[1]
           /\ IsSeq(actor_channel') /\ IsSeq(rollout_batch'[a])
           /\ rollout_batch' = [b \in ActorRanks |-> rollout_batch'[b]]
  BY RecvIs
<1>3. Share \in Nat \ {0}
  BY SplitNumbers
<1>4. PICK new : new = <<a, n + 1>>
  OBVIOUS
<1>5. new[1] = a /\ new[2] = n + 1 /\ new \in AllSlots /\ new \notin Slots
  BY <1>2, <1>3, <1>4 DEF AllSlots, Slots
<1>6. /\ Slots' = Slots \cup {new}
      /\ \A x \in Slots : In(x)' = In(x)
      /\ In(new)' = actor_channel[1]
  <2>1. ASSUME NEW x \in AllSlots PROVE x \in Slots' <=> x \in Slots \/ x = new
    <3>1. x[1] \in ActorRanks /\ x[2] \in 1 .. Share /\ x = <<x[1], x[2]>>
      BY DEF AllSlots
    <3>2. CASE x[1] = a
      <4>1. x \in Slots' <=> x[2] <= n + 1
        BY <1>2, <3>1, <3>2 DEF Slots, ActorRanks, Share
      <4>2. x \in Slots <=> x[2] <= n
        BY <1>2, <3>1, <3>2 DEF Slots
      <4>3. x = new <=> x[2] = n + 1
        BY <1>4, <3>1, <3>2
      <4> QED BY <1>2, <1>3, <3>1, <4>1, <4>2, <4>3
    <3>3. CASE x[1] # a
      <4>1. x # new /\ rollout_batch'[x[1]] = rollout_batch[x[1]]
        BY <1>2, <1>5, <3>1, <3>3
      <4> QED BY <3>1, <4>1 DEF Slots, ActorRanks, Share
    <3> QED BY <3>2, <3>3
  <2>2. Slots \subseteq AllSlots /\ Slots' \subseteq AllSlots
    BY DEF Slots, AllSlots, ActorRanks, Share
  <2>3. ASSUME NEW x \in Slots PROVE In(x)' = In(x)
    <3>1. x[1] \in ActorRanks /\ x[2] \in 1 .. Share /\ x[2] <= Len(rollout_batch[x[1]])
      BY DEF Slots
    <3>2. CASE x[1] = a
      <4>1. x[2] \in 1 .. n
        BY <1>2, <1>3, <3>1, <3>2
      <4> QED BY <1>2, <3>2, <4>1 DEF In
    <3>3. CASE x[1] # a
      BY <1>2, <3>1, <3>3 DEF In
    <3> QED BY <3>2, <3>3
  <2>4. In(new)' = actor_channel[1]
    BY <1>2, <1>5 DEF In
  <2>5. \A x : x \in Slots' <=> x \in Slots \cup {new}
    BY <1>5, <2>1, <2>2
  <2> QED BY <2>3, <2>4, <2>5
<1>7. /\ \A r \in RolloutRanks : \A s \in Stages : Sent(r, s)' <=> Sent(r, s)
      /\ \A x : Id(x)' = Id(x)
  BY <1>1 DEF Sent, Id
<1>8. 1 \in DOMAIN actor_channel
  BY <1>2
<1>9. ASSUME NEW x \in Slots' PROVE PartFits(In(x))' /\ Sent(In(x).rank, In(x).stage)'
  <2>0. PICK y : y = In(x)'
    OBVIOUS
  <2>1. PartFits(y) /\ Sent(y.rank, y.stage)
    <3>1. CASE x \in Slots
      BY <1>6, <2>0, <3>1 DEF BatchesFit, ChannelFits
    <3>2. CASE x = new
      BY <1>6, <1>8, <2>0, <3>2 DEF ChannelFits
    <3> QED BY <1>6, <3>1, <3>2
  <2>2. PartFits(y)' /\ Sent(y.rank, y.stage)'
    <3>1. y.rank \in RolloutRanks /\ y.stage \in Stages
      BY <2>1 DEF PartFits
    <3> QED BY <1>1, <1>7, <2>1, <3>1, PartSame
  <2> QED BY <2>0, <2>2 DEF PartFits, Complete, Filled, Sent
<1>10. ASSUME NEW x \in Slots', NEW y \in Slots', Id(In(x))' = Id(In(y))' PROVE x = y
  <2>1. PICK u, v : u = In(x)' /\ v = In(y)'
    OBVIOUS
  <2>2. Id(u) = Id(v)
    BY <1>10, <2>1 DEF Id
  <2>3. CASE x \in Slots /\ y \in Slots
    <3>1. Id(In(x)) = Id(In(y))
      BY <1>6, <2>1, <2>2, <2>3
    <3> QED BY <2>3, <3>1 DEF BatchesFit
  <2>4. \A z \in Slots : Id(In(z)) # Id(actor_channel[1])
    BY <1>8 DEF ChannelFits
  <2>5. CASE x \in Slots /\ y = new
    BY <1>6, <2>1, <2>2, <2>4, <2>5
  <2>6. CASE x = new /\ y \in Slots
    BY <1>6, <2>1, <2>2, <2>4, <2>6
  <2> QED BY <1>6, <2>3, <2>5, <2>6
<1>11. BatchesFit'
  <2>1. \A x \in Slots' : PartFits(In(x))'
    BY <1>9
  <2> QED BY <1>10, <2>1 DEF BatchesFit
<1>12. ASSUME NEW k \in 1 .. l
       PROVE  /\ k + 1 \in DOMAIN actor_channel /\ k + 1 # 1 /\ actor_channel'[k] = actor_channel[k + 1]
              /\ PartFits(actor_channel[k])' /\ Sent(actor_channel[k].rank, actor_channel[k].stage)'
  <2>0. PICK y : y = actor_channel'[k]
    OBVIOUS
  <2>1. k + 1 \in DOMAIN actor_channel /\ k + 1 # 1 /\ y = actor_channel[k + 1]
    BY <1>2, <2>0
  <2>2. PartFits(y) /\ Sent(y.rank, y.stage)
    BY <2>1 DEF ChannelFits
  <2>3. PartFits(y)' /\ Sent(y.rank, y.stage)'
    <3>1. y.rank \in RolloutRanks /\ y.stage \in Stages
      BY <2>2 DEF PartFits
    <3> QED BY <1>1, <1>7, <2>2, <3>1, PartSame
  <2> QED BY <2>0, <2>1, <2>3 DEF PartFits, Complete, Filled, Sent
<1>13. ASSUME NEW k \in 1 .. l, NEW m \in 1 .. l, Id(actor_channel[k])' = Id(actor_channel[m])' PROVE k = m
  <2>1. Id(actor_channel[k + 1]) = Id(actor_channel[m + 1])
    BY <1>12, <1>13 DEF Id
  <2>2. k + 1 = m + 1
    BY <1>12, <2>1 DEF ChannelFits
  <2> QED BY <2>2
<1>14. ASSUME NEW x \in Slots', NEW k \in 1 .. l PROVE Id(In(x))' # Id(actor_channel[k])'
  <2>1. PICK u : u = In(x)'
    OBVIOUS
  <2>2. Id(u) # Id(actor_channel[k + 1])
    <3>1. CASE x \in Slots
      BY <1>6, <1>12, <2>1, <3>1 DEF ChannelFits
    <3>2. CASE x = new
      <4>1. u = actor_channel[1]
        BY <1>6, <2>1, <3>2
      <4> QED BY <1>8, <1>12, <4>1 DEF ChannelFits
    <3> QED BY <1>6, <3>1, <3>2
  <2>3. Id(In(x))' = Id(u) /\ Id(actor_channel[k])' = Id(actor_channel[k + 1])
    BY <1>12, <2>1 DEF Id
  <2> QED BY <2>2, <2>3
<1>15. ChannelFits'
  <2>1. DOMAIN actor_channel' = 1 .. l
    BY <1>2
  <2>2. \A x \in Slots' : Sent(In(x).rank, In(x).stage)'
    BY <1>9
  <2> QED BY <1>12, <1>13, <1>14, <2>1, <2>2 DEF ChannelFits
<1>16. DataTypes'
  <2>1. UNCHANGED <<RolloutRanks, Stages, ActorRanks, Share>>
    BY DEF ActorRanks, RolloutRanks, Stages, Share
  <2>2. \A q : IsSeq(q)' <=> IsSeq(q)
    BY DEF IsSeq, Elems
  <2>3. ASSUME NEW b \in ActorRanks PROVE IsSeq(rollout_batch[b])' /\ Len(rollout_batch'[b]) <= Share
    <3>1. PICK y : y = rollout_batch'[b]
      OBVIOUS
    <3>2. IsSeq(y) /\ Len(y) <= Share
      <4>1. CASE b = a
        BY <1>2, <1>3, <3>1, <4>1
      <4>2. CASE b # a
        BY <1>2, <3>1, <4>2 DEF DataTypes
      <4> QED BY <4>1, <4>2
    <3> QED BY <3>1, <3>2 DEF IsSeq, Elems
  <2>4. IsSeq(actor_channel)'
    BY <1>2 DEF IsSeq, Elems
  <2> QED BY <1>1, <1>2, <2>1, <2>3, <2>4 DEF DataTypes
<1> QED BY <1>11, <1>15, <1>16

LEMMA EmptyTypes ==
  IsSeq(<<>>) /\ \A x : x = EmptyBuffers => x = [r \in RolloutRanks |-> [s \in Stages |-> x[r][s]]]
<1>1. IsSeq(<<>>)
  <2>1. <<>> \in Seq({})
    OBVIOUS
  <2> QED BY <2>1, SeqOfElems
<1> QED BY <1>1 DEF EmptyBuffers

LEMMA DataInit == PipelineInit => DataFit
<1> SUFFICES ASSUME PipelineInit PROVE DataFit
  OBVIOUS
<1>1. /\ pc = "sync" /\ buffer = EmptyBuffers /\ actor_channel = <<>> /\ rollout_batch = NoBatch
  BY DEF PipelineInit
<1>2. Share \in Nat
  BY SplitNumbers
<1>3. DataTypes
  BY <1>1, <1>2, EmptyTypes DEF DataTypes, NoBatch
<1> QED BY <1>1, <1>3 DEF DataFit

(* A step that leaves the trajectories, and where they are, alone.          *)
LEMMA DataSame ==
  ASSUME DataFit, UNCHANGED <<pc, global_step, version, serving, rollout_at, buffer, actor_channel, rollout_batch>>
  PROVE  DataFit'
<1>1. DataTypes'
  BY DEF DataFit, DataTypes, IsSeq, Elems, ActorRanks, RolloutRanks, Stages, Share
<1>2. pc = "generate" => BuffersFit'
  <2> SUFFICES ASSUME pc = "generate" PROVE BuffersFit'
    OBVIOUS
  <2>1. BuffersFit
    BY DEF DataFit
  <2>2. UNCHANGED <<RolloutRanks, Stages>>
    BY DEF RolloutRanks, Stages
  <2>3. ASSUME NEW q \in RolloutRanks, NEW x \in Stages
        PROVE  /\ serving'[q] = "train" => Filled(buffer[q][x], x, rollout_at[q].epoch, Heard(rollout_at[q], x))'
               /\ serving'[q] # "train" => Complete(buffer[q][x], x)'
    <3>1. PICK rows, e, h : rows = buffer[q][x] /\ e = rollout_at[q].epoch /\ h = Heard(rollout_at[q], x)
      OBVIOUS
    <3>2. /\ serving[q] = "train" => Filled(rows, x, e, h)
          /\ serving[q] # "train" => Complete(rows, x)
      BY <2>1, <3>1 DEF BuffersFit
    <3>3. /\ serving[q] = "train" => Filled(rows, x, e, h)'
          /\ serving[q] # "train" => Complete(rows, x)'
      BY <3>2, FilledSame, PartSame
    <3>4. rows = buffer[q][x]' /\ e = rollout_at[q].epoch' /\ h = Heard(rollout_at[q], x)'
      BY <3>1 DEF Heard
    <3> QED BY <3>3, <3>4 DEF Filled, Complete
  <2> QED BY <2>2, <2>3 DEF BuffersFit
<1>3. pc \in {"generate", "train"} => BatchesFit'
  BY BatchesSame DEF DataFit
<1>4. pc = "generate" => ChannelFits'
  <2>1. \A r \in RolloutRanks : \A s \in Stages : Sent(r, s) => Sent(r, s)'
    BY DEF Sent
  <2> QED BY <2>1, ChannelSame DEF DataFit
<1>5. pc = "train" => \A a \in ActorRanks : Len(rollout_batch'[a]) = Share
  BY DEF DataFit
<1>6. UNCHANGED <<ActorRanks, Share>>
  BY DEF ActorRanks, Share
<1> QED BY <1>1, <1>2, <1>3, <1>4, <1>5, <1>6 DEF DataFit

(* Outside generate and train, only that nothing is under way is left.      *)
LEMMA DataAway ==
  ASSUME DataFit, pc # "generate", pc' \notin {"generate", "train"},
         UNCHANGED <<buffer, actor_channel, rollout_batch>>
  PROVE  DataFit'
<1>1. DataTypes'
  BY DEF DataFit, DataTypes, IsSeq, Elems, ActorRanks, RolloutRanks, Stages, Share
<1> QED BY <1>1 DEF DataFit

LEMMA GenerateStarts ==
  ASSUME LoopsFit, DataFit, StartGenerate
  PROVE  DataFit'
<1>1. /\ pc = "sync" /\ pc' = "generate" /\ buffer' = EmptyBuffers /\ rollout_batch' = NoBatch
      /\ actor_channel' = actor_channel /\ rollout_at' = rollout_at
      /\ serving' = [r \in RolloutRanks |-> "train"]
  BY DEF StartGenerate, CallAll
<1>2. actor_channel' = <<>> /\ \A r \in RolloutRanks : rollout_at[r] = Start(1)
  BY <1>1 DEF DataFit, LoopsFit, NoneCalled, Running, Modes
<1>3. Share \in Nat /\ Share # 0
  BY SplitNumbers
<1>4. UNCHANGED <<RolloutRanks, Stages, ActorRanks, Share>>
  BY DEF RolloutRanks, Stages, ActorRanks, Share
<1>5. DataTypes'
  BY <1>1, <1>2, <1>3, <1>4, EmptyTypes DEF DataTypes, NoBatch, IsSeq, Elems
<1>6. BuffersFit'
  <2>1. ASSUME NEW q \in RolloutRanks, NEW x \in Stages
        PROVE  Filled(buffer[q][x], x, rollout_at[q].epoch, Heard(rollout_at[q], x))'
    <3>1. NoRows = buffer'[q][x] /\ 1 = rollout_at'[q].epoch /\ 0 = Heard(rollout_at[q], x)'
      <4>1. x \in Nat /\ x >= 1
        BY StageAssumption DEF Stages
      <4> QED BY <1>1, <1>2, <4>1 DEF EmptyBuffers, Heard, Start
    <3>2. Filled(NoRows, x, 1, 0)'
      <4>1. Filled(NoRows, x, 1, 0)
        BY FilledStarts
      <4>2. \A w \in Nat : \A F : Grid(<<>>, w, 1, 0, F)
        BY GridStarts
      <4>3. n_chunk_steps \in Nat /\ n_chunk_steps + 1 \in Nat /\ Followed(0) = 0 /\ Answered(0) = 0
        BY PipelineAssumption DEF Followed, Answered
      <4> QED BY <4>2, <4>3 DEF Filled, NoRows
    <3> QED BY <3>1, <3>2 DEF Filled, NoRows
  <2> QED BY <1>1, <1>4, <2>1 DEF BuffersFit
<1>7. Slots' = {}
  <2>1. \A a \in ActorRanks \X (1 .. Share) : ~(a[2] <= Len(rollout_batch'[a[1]]))
    <3>1. \A b \in ActorRanks : Len(rollout_batch'[b]) = 0
      BY <1>1 DEF NoBatch
    <3> QED BY <1>3, <3>1
  <2> QED BY <1>4, <2>1 DEF Slots
<1>8. BatchesFit' /\ ChannelFits'
  <2>1. DOMAIN actor_channel' = {}
    BY <1>2
  <2> QED BY <1>7, <2>1 DEF BatchesFit, ChannelFits
<1> QED BY <1>1, <1>2, <1>5, <1>6, <1>8 DEF DataFit

LEMMA DataStep == LoopsFit /\ DataFit /\ [PipelineNext]_pipelineVars => DataFit'
<1> SUFFICES ASSUME LoopsFit, DataFit, [PipelineNext]_pipelineVars PROVE DataFit'
  OBVIOUS
<1>1. ASSUME NEW e \in EnvRanks, Env(e) PROVE DataFit'
  <2>1. UNCHANGED <<pc, global_step, version, serving, rollout_at, buffer, actor_channel, rollout_batch>>
    BY <1>1 DEF Env, SendInitial, Interact, runner, rollouts
  <2> QED BY <2>1, DataSame
<1>2. ASSUME NEW r \in RolloutRanks, Generate(r) \/ GenerateLast(r) PROVE DataFit'
  <2>1. /\ UNCHANGED <<pc, actor_channel, rollout_batch>> /\ serving[r] = "train"
    BY <1>2 DEF Generate, GenerateLast, runner, Hears
  <2>2. pc = "generate"
    BY <2>1, RolloutInMode DEF Modes, Running
  <2>3. BuffersFit' /\ buffer' = [q \in RolloutRanks |-> [s \in Stages |-> buffer'[q][s]]]
    BY <1>2, <2>2, CollectKeepsBuffers DEF DataFit
  <2>4. BatchesFit' /\ ChannelFits'
    BY <1>2, <2>2, CollectKeepsChannel DEF DataFit
  <2>5. DataTypes'
    <3>1. /\ UNCHANGED <<RolloutRanks, Stages, ActorRanks, Share>>
          /\ \A q : IsSeq(q)' <=> IsSeq(q)
      BY DEF ActorRanks, RolloutRanks, Stages, Share, IsSeq, Elems
    <3>2. /\ IsSeq(actor_channel)'
          /\ \A a \in ActorRanks : IsSeq(rollout_batch[a])' /\ Len(rollout_batch'[a]) <= Share
      BY <2>1 DEF DataFit, DataTypes, IsSeq, Elems
    <3>3. rollout_batch' = [a \in ActorRanks |-> rollout_batch'[a]]
      BY <2>1 DEF DataFit, DataTypes
    <3> QED BY <2>3, <3>1, <3>2, <3>3 DEF DataTypes
  <2> QED BY <2>1, <2>2, <2>3, <2>4, <2>5 DEF DataFit
<1>3. ASSUME NEW r \in RolloutRanks, SendRolloutBatch(r) PROVE DataFit'
  <2>1. pc = "generate" /\ pc' = pc
    BY <1>3, SendIs
  <2>2. BuffersFit' /\ ChannelFits' /\ BatchesFit' /\ DataTypes'
    BY <1>3, <2>1, SendKeepsData DEF DataFit
  <2> QED BY <2>1, <2>2 DEF DataFit
<1>4. ASSUME NEW r \in RolloutRanks, Evaluate(r) PROVE DataFit'
  <2>1. serving[r] = "eval" /\ UNCHANGED <<pc, buffer, actor_channel, rollout_batch>>
    BY <1>4 DEF Evaluate, Hears, runner
  <2>2. pc = "evaluate"
    BY <2>1, RolloutInMode DEF Modes, Running
  <2> QED BY <2>1, <2>2, DataAway
<1>5. ASSUME NEW r \in RolloutRanks, sync_model_from_actor(r) PROVE DataFit'
  <2>1. pc \in {"sync", "sync_eval"} /\ UNCHANGED <<pc, buffer, actor_channel, rollout_batch>>
    BY <1>5 DEF sync_model_from_actor
  <2> QED BY <2>1, DataAway
<1>6. ASSUME NEW a \in ActorRanks, recv_rollout_batch(a) PROVE DataFit'
  <2>1. pc = "generate" /\ UNCHANGED <<pc, global_step, version, buffer, serving, rollout_at>>
    BY <1>6 DEF recv_rollout_batch, runner, rollouts
  <2>2. ChannelFits' /\ BatchesFit' /\ DataTypes'
    BY <1>6, <2>1, RecvKeepsData DEF DataFit
  <2>3. BuffersFit'
    <3>1. UNCHANGED <<RolloutRanks, Stages>>
      BY DEF RolloutRanks, Stages
    <3>2. ASSUME NEW q \in RolloutRanks, NEW x \in Stages
          PROVE  /\ serving'[q] = "train" => Filled(buffer[q][x], x, rollout_at[q].epoch, Heard(rollout_at[q], x))'
                 /\ serving'[q] # "train" => Complete(buffer[q][x], x)'
      <4>1. PICK rows, e, h : rows = buffer[q][x] /\ e = rollout_at[q].epoch /\ h = Heard(rollout_at[q], x)
        OBVIOUS
      <4>2. /\ serving[q] = "train" => Filled(rows, x, e, h)
            /\ serving[q] # "train" => Complete(rows, x)
        BY <2>1, <4>1 DEF DataFit, BuffersFit
      <4>3. /\ serving[q] = "train" => Filled(rows, x, e, h)'
            /\ serving[q] # "train" => Complete(rows, x)'
        BY <2>1, <4>2, FilledSame, PartSame
      <4>4. rows = buffer[q][x]' /\ e = rollout_at[q].epoch' /\ h = Heard(rollout_at[q], x)'
        BY <2>1, <4>1 DEF Heard
      <4> QED BY <2>1, <4>3, <4>4 DEF Filled, Complete
    <3> QED BY <3>1, <3>2 DEF BuffersFit
  <2> QED BY <2>1, <2>2, <2>3 DEF DataFit
<1>7. CASE StartGenerate
  BY <1>7, GenerateStarts
<1>8. CASE GenerateEnds
  <2>1. /\ pc = "generate" /\ pc' = "train"
        /\ UNCHANGED <<global_step, version, buffer, actor_channel, rollout_batch>>
        /\ \A a \in ActorRanks : Len(rollout_batch[a]) = Share
    BY <1>8 DEF GenerateEnds, rollouts
  <2>2. BatchesFit'
    BY <2>1, BatchesSame DEF DataFit
  <2>3. actor_channel = <<>>
    <3> SUFFICES ASSUME actor_channel # <<>> PROVE FALSE
      OBVIOUS
    <3>1. 1 \in DOMAIN actor_channel
      <4>1. actor_channel \in Seq(Elems(actor_channel))
        BY DEF DataFit, DataTypes, IsSeq
      <4> QED BY <4>1
    <3>2. PICK x : x = actor_channel[1] /\ PartFits(x)
      BY <2>1, <3>1 DEF DataFit, ChannelFits
    <3>3. PICK p \in 1 .. Parts : x.envs = PartEnvs(x.rank, p)
      BY <3>2 DEF PartFits
    <3>4. PICK a \in Slots : Id(In(a)) = <<x.rank, x.stage, PartEnvs(x.rank, p)>>
      BY <2>1, <3>2, NoneMissing DEF DataFit, PartFits
    <3>5. Id(In(a)) = Id(actor_channel[1])
      BY <3>2, <3>3, <3>4 DEF Id
    <3> QED BY <2>1, <3>1, <3>5 DEF DataFit, ChannelFits
  <2>4. DataTypes'
    BY <2>1 DEF DataFit, DataTypes, IsSeq, Elems, ActorRanks, RolloutRanks, Stages, Share
  <2>5. UNCHANGED <<ActorRanks, Share>>
    BY DEF ActorRanks, Share
  <2> QED BY <2>1, <2>2, <2>3, <2>4, <2>5 DEF DataFit
<1>9. CASE Train \/ StartEvaluate \/ EvaluateEnds \/ Save \/ WriteMetadata \/ WriteRef \/ EndStep
  <2>1. pc # "generate" /\ pc' \notin {"generate", "train"} /\ UNCHANGED <<buffer, actor_channel, rollout_batch>>
    BY <1>9 DEF Train, StartEvaluate, CallAll, EvaluateEnds, Save, WriteMetadata, WriteRef, SaveEnds, EndStep, rollouts
  <2> QED BY <2>1, DataAway
<1>10. CASE Restart
  <2>1. /\ pc' \in {"sync", "done"} /\ buffer' = EmptyBuffers /\ actor_channel' = <<>> /\ rollout_batch' = NoBatch
    BY <1>10 DEF Restart
  <2>2. UNCHANGED <<RolloutRanks, Stages, ActorRanks, Share>> /\ Share \in Nat
    BY SplitNumbers DEF RolloutRanks, Stages, ActorRanks, Share
  <2>3. DataTypes'
    BY <2>1, <2>2, EmptyTypes DEF DataTypes, NoBatch, IsSeq, Elems
  <2> QED BY <2>1, <2>3 DEF DataFit
<1>11. CASE UNCHANGED pipelineVars
  <2>1. UNCHANGED <<pc, global_step, version, serving, rollout_at, buffer, actor_channel, rollout_batch>>
    BY <1>11 DEF pipelineVars, runner, rollouts
  <2> QED BY <2>1, DataSame
<1>12. ASSUME NEW a \in ActorRanks, WriteShard(a) PROVE DataFit'
  <2>1. UNCHANGED <<pc, global_step, version, serving, rollout_at, buffer, actor_channel, rollout_batch>>
    BY <1>12 DEF WriteShard, rollouts
  <2> QED BY <2>1, DataSame
<1> QED BY <1>1, <1>2, <1>3, <1>4, <1>5, <1>6, <1>7, <1>8, <1>9, <1>10, <1>11, <1>12
        DEF PipelineNext, Rollout, Actor, Runner

LEMMA DataInvariant == PipelineSpec => [](LoopsFit /\ DataFit)
<1>1. LoopsFit /\ DataFit /\ [PipelineNext]_pipelineVars => (LoopsFit /\ DataFit)'
  BY LoopsStep, DataStep
<1> QED BY <1>1, LoopsInit, DataInit, PTL DEF PipelineSpec

-----------------------------------------------------------------------------
(* From parts to the batch of an actor rank, cell by cell.                  *)

(* Parts of W columns, n rows of a field, side by side in N columns. *)
Beside(m, parts, field, W, N, n) ==
  /\ Len(m) = n
  /\ \A t \in 1 .. n :
       /\ Len(m[t]) = N
       /\ \A c \in 1 .. N : LET part == parts[(c - 1) \div W + 1] IN
            m[t][c] = [rank |-> part.rank, stage |-> part.stage,
                       env |-> part.envs[((c - 1) % W) + 1], of |-> part.rows[field][t]]

LEMMA SideBySide ==
  ASSUME NEW parts, NEW field, NEW W \in Nat \ {0}, NEW N \in Nat, NEW n \in Nat,
         N = Len(parts) * W, Len(parts[1].envs) = W, Len(parts[1].rows[field]) = n
  PROVE  Beside(cat_list_of_dict_tensor(parts, field), parts, field, W, N, n)
<1> DEFINE cell(t, c) == LET part == parts[(c - 1) \div W + 1] IN
             [rank |-> part.rank, stage |-> part.stage,
              env |-> part.envs[((c - 1) % W) + 1], of |-> part.rows[field][t]]
<1>1. cat_list_of_dict_tensor(parts, field) = [t \in 1 .. n |-> [c \in 1 .. N |-> cell(t, c)]]
  BY DEF cat_list_of_dict_tensor
<1> HIDE DEF cell
<1>2. PICK m : m = [t \in 1 .. n |-> [c \in 1 .. N |-> cell(t, c)]]
  OBVIOUS
<1>3. Len(m) = n
  BY <1>2
<1>4. ASSUME NEW t \in 1 .. n PROVE Len(m[t]) = N /\ \A c \in 1 .. N : m[t][c] = cell(t, c)
  <2>1. m[t] = [c \in 1 .. N |-> cell(t, c)]
    BY <1>2
  <2> QED BY <2>1
<1>5. m = cat_list_of_dict_tensor(parts, field)
  BY <1>1, <1>2
<1>6. Beside(m, parts, field, W, N, n)
  BY <1>3, <1>4 DEF cell, Beside
<1> QED BY <1>5, <1>6

(* Epochs of h rows side by side, from L columns to N. *)
Aside(b, m, h, L, N) ==
  /\ Len(b) = h
  /\ \A t \in 1 .. h :
       /\ Len(b[t]) = N
       /\ \A c \in 1 .. N : b[t][c] = m[((c - 1) \div L) * h + t][((c - 1) % L) + 1]

LEMMA EpochsAside ==
  ASSUME NEW m, NEW E \in Nat \ {0}, NEW h \in Nat, NEW L \in Nat \ {0}, NEW N \in Nat,
         N = E * L, Len(m) = h * E, Len(m[1]) = L
  PROVE  Aside(process_nested_dict_for_adv(m, E), m, h, L, N)
<1> DEFINE cell(t, c) == m[((c - 1) \div L) * h + t][((c - 1) % L) + 1]
<1>1. Len(m) \div E = h
  <2>1. (h * E + 0) \div E = h
    BY Division
  <2>2. h * E + 0 = Len(m)
    OBVIOUS
  <2> QED BY <2>1, <2>2
<1>2. process_nested_dict_for_adv(m, E) = [t \in 1 .. h |-> [c \in 1 .. N |-> cell(t, c)]]
  BY <1>1 DEF process_nested_dict_for_adv
<1> HIDE DEF cell
<1>3. PICK b : b = [t \in 1 .. h |-> [c \in 1 .. N |-> cell(t, c)]]
  OBVIOUS
<1>4. Len(b) = h
  BY <1>3
<1>5. ASSUME NEW t \in 1 .. h PROVE Len(b[t]) = N /\ \A c \in 1 .. N : b[t][c] = cell(t, c)
  <2>1. b[t] = [c \in 1 .. N |-> cell(t, c)]
    BY <1>3
  <2> QED BY <2>1
<1>6. b = process_nested_dict_for_adv(m, E)
  BY <1>2, <1>3
<1>7. Aside(b, m, h, L, N)
  BY <1>4, <1>5 DEF cell, Aside
<1> QED BY <1>6, <1>7

-----------------------------------------------------------------------------
Fields == {"dones", "values", "rewards", "inputs", "actions"}
Rows(f) == IF f \in {"dones", "values"} THEN n_chunk_steps + 1 ELSE n_chunk_steps
Of(f, s) == IF f \in {"dones", "values"} THEN ObsAt(s)
            ELSE IF f = "rewards" THEN NextAt(s) ELSE ActAt(s)

LEMMA CompleteGrid ==
  ASSUME NEW rows, NEW s, Complete(rows, s), NEW f \in Fields
  PROVE  Grid(rows[f], Rows(f), rollout_epoch, Rows(f), Of(f, s)) /\ Rows(f) \in Nat \ {0}
<1>1. n_chunk_steps \in Nat \ {0} /\ n_chunk_steps + 1 \in Nat \ {0}
  BY PipelineAssumption
<1>2. Followed(n_chunk_steps + 1) = n_chunk_steps /\ Answered(n_chunk_steps + 1) = n_chunk_steps
  BY <1>1 DEF Followed, Answered
<1>3. /\ Grid(rows.dones, n_chunk_steps + 1, rollout_epoch, n_chunk_steps + 1, ObsAt(s))
      /\ Grid(rows.values, n_chunk_steps + 1, rollout_epoch, n_chunk_steps + 1, ObsAt(s))
      /\ Grid(rows.rewards, n_chunk_steps, rollout_epoch, n_chunk_steps, NextAt(s))
      /\ Grid(rows.inputs, n_chunk_steps, rollout_epoch, n_chunk_steps, ActAt(s))
      /\ Grid(rows.actions, n_chunk_steps, rollout_epoch, n_chunk_steps, ActAt(s))
  BY <1>2 DEF Complete, Filled
<1>4. CASE f = "dones"
  BY <1>1, <1>3, <1>4 DEF Rows, Of
<1>5. CASE f = "values"
  BY <1>1, <1>3, <1>5 DEF Rows, Of
<1>6. CASE f = "rewards"
  BY <1>1, <1>3, <1>6 DEF Rows, Of
<1>7. CASE f = "inputs"
  BY <1>1, <1>3, <1>7 DEF Rows, Of
<1>8. CASE f = "actions"
  BY <1>1, <1>3, <1>8 DEF Rows, Of
<1> QED BY <1>4, <1>5, <1>6, <1>7, <1>8 DEF Fields

(* Of a column of the batch: the epoch, the part and the place in the part. *)
EpochColumns == Share * Width
AllColumns   == rollout_epoch * EpochColumns
EpochOf(c) == (c - 1) \div EpochColumns + 1
SlotOf(c)  == ((c - 1) % EpochColumns) \div Width + 1
EnvOf(c)   == (((c - 1) % EpochColumns) % Width) + 1

LEMMA ColumnNumbers ==
  /\ Share \in Nat \ {0} /\ Width \in Nat \ {0} /\ rollout_epoch \in Nat \ {0}
  /\ EpochColumns \in Nat \ {0} /\ AllColumns \in Nat \ {0} /\ n_chunk_steps \in Nat \ {0}
<1>1. Share \in Nat \ {0} /\ Width \in Nat \ {0} /\ rollout_epoch \in Nat \ {0} /\ n_chunk_steps \in Nat \ {0}
  BY SplitNumbers, WidthIs, PipelineAssumption
<1>2. EpochColumns \in Nat \ {0}
  BY <1>1, Multiplied DEF EpochColumns
<1>3. AllColumns \in Nat \ {0}
  BY <1>1, <1>2, Multiplied DEF AllColumns
<1> QED BY <1>1, <1>2, <1>3

(* A number below a product, divided. *)
LEMMA Below ==
  ASSUME NEW x \in Nat \ {0}, NEW m \in Nat \ {0}, NEW n \in Nat, n < x * m
  PROVE  (n \div m) \in 0 .. x - 1
<1>1. PICK d \in Nat, r \in 0 .. m - 1 : d = n \div m /\ n = d * m + r
  BY DivisionIs
<1>2. ASSUME d >= x PROVE FALSE
  <2>1. PICK y \in Nat : d = x + y
    <3>1. d - x \in Nat /\ d = x + (d - x)
      BY <1>2
    <3> QED BY <3>1
  <2>2. (x + y) * m = x * m + y * m /\ y * m \in Nat /\ x * m \in Nat
    OBVIOUS
  <2> QED BY <1>1, <2>1, <2>2
<1> QED BY <1>1, <1>2

LEMMA ColumnIs ==
  ASSUME NEW c \in 1 .. AllColumns
  PROVE  EpochOf(c) \in 1 .. rollout_epoch /\ SlotOf(c) \in 1 .. Share /\ EnvOf(c) \in 1 .. Width
<1>1. PICK E \in Nat \ {0}, K \in Nat \ {0}, W \in Nat \ {0}, L \in Nat \ {0} :
        E = rollout_epoch /\ K = Share /\ W = Width /\ L = EpochColumns
  BY ColumnNumbers
<1>2. L = K * W /\ AllColumns = E * L
  BY <1>1 DEF EpochColumns, AllColumns
<1>3. PICK n \in Nat : n = c - 1 /\ n < E * L
  <2>1. AllColumns \in Nat
    BY ColumnNumbers
  <2> QED BY <1>2, <2>1
<1>4. (n \div L) \in 0 .. E - 1
  BY <1>3, Below
<1>5. PICK j \in Nat : j = n % L /\ j < K * W
  <2>1. (n % L) \in 0 .. L - 1
    BY DivisionIs
  <2> QED BY <1>2, <2>1
<1>6. (j \div W) \in 0 .. K - 1 /\ (j % W) \in 0 .. W - 1
  BY <1>5, Below, DivisionIs
<1>7. EpochOf(c) = (n \div L) + 1 /\ SlotOf(c) = (j \div W) + 1 /\ EnvOf(c) = (j % W) + 1
  BY <1>1, <1>3, <1>5 DEF EpochOf, SlotOf, EnvOf
<1>8. \A x, y \in Nat : x \in 0 .. y - 1 => x + 1 \in 1 .. y
  OBVIOUS
<1> QED BY <1>1, <1>4, <1>6, <1>7, <1>8

(* What column c of rank a's batch holds. *)
PartOf(a, c) == rollout_batch[a][SlotOf(c)]
Cell(a, c, x) == [rank |-> PartOf(a, c).rank, stage |-> PartOf(a, c).stage,
                  env |-> PartOf(a, c).envs[EnvOf(c)], of |-> x]

(* The parts that an actor trains on. *)
PartsFit(a) ==
  /\ Len(rollout_batch[a]) = Share
  /\ \A q \in 1 .. Share : PartFits(rollout_batch[a][q])

LEMMA BatchIs ==
  ASSUME NEW a, PartsFit(a), NEW f \in Fields
  PROVE  /\ Len(Batch(a, f)) = Rows(f) /\ Rows(f) \in Nat \ {0}
         /\ \A t \in 1 .. Rows(f) :
              /\ Len(Batch(a, f)[t]) = AllColumns
              /\ \A c \in 1 .. AllColumns :
                   Batch(a, f)[t][c] = Cell(a, c, Of(f, PartOf(a, c).stage)[<<EpochOf(c), t>>])
<1>1. PICK E \in Nat \ {0}, K \in Nat \ {0}, W \in Nat \ {0}, L \in Nat \ {0}, N \in Nat \ {0} :
        E = rollout_epoch /\ K = Share /\ W = Width /\ L = EpochColumns /\ N = AllColumns
  BY ColumnNumbers
<1>2. L = K * W /\ N = E * L
  BY <1>1 DEF EpochColumns, AllColumns
<1>3. PICK parts : parts = rollout_batch[a]
  OBVIOUS
<1>4. /\ Len(parts) = K
      /\ \A q \in 1 .. K : Len(parts[q].envs) = W
      /\ \A q \in 1 .. K : Complete(parts[q].rows, parts[q].stage)
  <2>1. Len(parts) = K /\ \A q \in 1 .. K : PartFits(parts[q])
    BY <1>1, <1>3 DEF PartsFit
  <2>2. ASSUME NEW x, PartFits(x) PROVE Len(x.envs) = Width /\ Complete(x.rows, x.stage)
    <3>1. PICK r \in RolloutRanks : r = x.rank
      BY <2>2 DEF PartFits
    <3>2. PICK p \in 1 .. Parts : x.envs = PartEnvs(r, p)
      BY <2>2, <3>1 DEF PartFits
    <3> QED BY <2>2, <3>2, PartEnvsAre DEF PartFits
  <2> QED BY <1>1, <2>1, <2>2
<1>5. PICK h \in Nat \ {0} : h = Rows(f)
  BY ColumnNumbers DEF Rows
<1>6. \A q \in 1 .. K : Grid(parts[q].rows[f], h, E, h, Of(f, parts[q].stage))
  BY <1>1, <1>4, <1>5, CompleteGrid
<1>7. PICK n \in Nat : n = E * h
  BY Multiplied
<1>8. \A q \in 1 .. K : Len(parts[q].rows[f]) = n
  <2>1. At(E, h, h) = n
    <3>1. (E - 1) * h + h = E * h
      OBVIOUS
    <3> QED BY <1>7, <3>1 DEF At
  <2> QED BY <1>6, <2>1 DEF Grid
<1>9. PICK m : m = cat_list_of_dict_tensor(parts, f)
  OBVIOUS
<1> DEFINE cell(t, j) == LET part == parts[(j - 1) \div W + 1] IN
             [rank |-> part.rank, stage |-> part.stage,
              env |-> part.envs[((j - 1) % W) + 1], of |-> part.rows[f][t]]
<1>10. /\ Len(m) = n
       /\ \A t \in 1 .. n : Len(m[t]) = L /\ \A j \in 1 .. L : m[t][j] = cell(t, j)
  <2>1. 1 \in 1 .. K
    OBVIOUS
  <2>2. Len(parts[1].rows[f]) = n /\ Len(parts[1].envs) = W /\ L = Len(parts) * W
    BY <1>2, <1>4, <1>8, <2>1
  <2>3. Beside(m, parts, f, W, L, n)
    BY <1>9, <2>2, SideBySide
  <2> QED BY <2>3 DEF Beside
<1>11. PICK b : b = process_nested_dict_for_adv(m, E)
  OBVIOUS
<1>12. /\ Len(b) = h
       /\ \A t \in 1 .. h : Len(b[t]) = N
       /\ \A t \in 1 .. h : \A c \in 1 .. N : b[t][c] = m[((c - 1) \div L) * h + t][((c - 1) % L) + 1]
  <2>1. Len(m[1]) = L /\ Len(m) = h * E
    <3>1. 1 \in 1 .. n
      <4>1. n \in Nat \ {0}
        BY <1>7, Multiplied
      <4> QED BY <4>1
    <3> QED BY <1>7, <1>10, <3>1, Multiplied
  <2>2. Aside(b, m, h, L, N)
    BY <1>2, <1>11, <2>1, EpochsAside
  <2> QED BY <2>2 DEF Aside
<1>13. Batch(a, f) = b
  BY <1>1, <1>3, <1>9, <1>11 DEF Batch
<1>14. ASSUME NEW t \in 1 .. h, NEW c \in 1 .. N
       PROVE  b[t][c] = Cell(a, c, Of(f, PartOf(a, c).stage)[<<EpochOf(c), t>>])
  <2>1. PICK e \in 1 .. E, q \in 1 .. K, k \in 1 .. W : e = EpochOf(c) /\ q = SlotOf(c) /\ k = EnvOf(c)
    BY <1>1, ColumnIs
  <2>2. PICK i \in 0 .. E - 1 : i = (c - 1) \div L /\ i + 1 = e /\ i = e - 1
    <3>1. e = (c - 1) \div L + 1
      BY <1>1, <2>1 DEF EpochOf
    <3>2. c - 1 \in Nat
      OBVIOUS
    <3>3. ((c - 1) \div L) \in Nat
      BY <3>2, DivisionIs
    <3> QED BY <3>1, <3>3
  <2>3. PICK j \in 0 .. L - 1 : j = (c - 1) % L
    <3>1. c - 1 \in Nat
      OBVIOUS
    <3> QED BY <3>1, DivisionIs
  <2>4. q = (j \div W) + 1 /\ k = (j % W) + 1 /\ j + 1 \in 1 .. L /\ (j + 1) - 1 = j
    BY <1>1, <2>1, <2>3 DEF SlotOf, EnvOf
  <2>5. PICK u \in 1 .. n : u = At(e, t, h)
    <3>1. At(e, t, h) \in Nat \ {0} /\ At(e, t, h) <= At(E, h, h)
      <4>1. e \in Nat \ {0} /\ h \in 0 .. h /\ (e < E \/ e = E) /\ t <= h
        OBVIOUS
      <4> QED BY <4>1, GridPlaces
    <3>2. At(E, h, h) = n
      <4>1. (E - 1) * h + h = E * h
        OBVIOUS
      <4> QED BY <1>7, <4>1 DEF At
    <3> QED BY <3>1, <3>2
  <2>6. b[t][c] = m[u][j + 1]
    <3>1. ((c - 1) \div L) * h + t = u
      BY <2>2, <2>5 DEF At
    <3> QED BY <1>12, <2>3, <3>1
  <2>7. m[u][j + 1] = cell(u, j + 1)
    BY <1>10, <2>4
  <2>8. cell(u, j + 1) = [rank |-> parts[q].rank, stage |-> parts[q].stage,
                          env |-> parts[q].envs[k], of |-> parts[q].rows[f][u]]
    BY <2>4
  <2>9. parts[q].rows[f][u] = Of(f, parts[q].stage)[<<e, t>>]
    <3>1. e < E \/ t <= h
      OBVIOUS
    <3> QED BY <1>6, <2>5, <3>1 DEF Grid
  <2>10. PartOf(a, c) = parts[q]
    BY <1>3, <2>1 DEF PartOf
  <2> QED BY <2>1, <2>6, <2>7, <2>8, <2>9, <2>10 DEF Cell
<1> QED BY <1>1, <1>5, <1>12, <1>13, <1>14

-----------------------------------------------------------------------------
(* From the batch to samples.                                               *)

(* The dones before sub-step k of chunk step t of an epoch: row u has d[u]. *)
DonesBefore(d, chunks, t, k) ==
  {<<d[0], chunks>>}
  \cup {<<d[u], v>> : u \in 1 .. t - 1, v \in 1 .. chunks}
  \cup {<<d[t], v>> : v \in 1 .. k - 1}

(* Sub-step v after u chunk steps, counted through. *)
LEMMA SubSteps ==
  ASSUME NEW A \in Nat \ {0}, NEW t \in Nat \ {0}, NEW k \in 1 .. A
  PROVE  /\ A + (t - 1) * A + k - 1 = t * A + (k - 1) /\ t * A \in Nat
         /\ \A u \in Nat : \A v \in 1 .. A :
              /\ u * A + v \in Nat \ {0}
              /\ (u * A + v - 1) \div A = u /\ ((u * A + v - 1) % A) + 1 = v
              /\ u * A + v \in A .. t * A + (k - 1) <=>
                   (u = 0 /\ v = A) \/ u \in 1 .. t - 1 \/ (u = t /\ v < k)
<1>1. PICK y \in Nat : y = t * A
  OBVIOUS
<1>2. A + (t - 1) * A + k - 1 = t * A + (k - 1)
  OBVIOUS
<1>3. ASSUME NEW b \in Nat, NEW d \in Nat, b < d PROVE b * A + A <= d * A /\ b * A \in Nat /\ d * A \in Nat
  <2>1. PICK x \in Nat : d = b + 1 + x
    <3>1. d - b - 1 \in Nat /\ d = b + 1 + (d - b - 1)
      BY <1>3
    <3> QED BY <3>1
  <2>2. (b + 1 + x) * A = b * A + A + x * A /\ x * A \in Nat /\ b * A \in Nat
    OBVIOUS
  <2> QED BY <2>1, <2>2
<1>4. ASSUME NEW u \in Nat, NEW v \in 1 .. A
      PROVE  /\ u * A + v \in Nat \ {0}
             /\ (u * A + v - 1) \div A = u /\ ((u * A + v - 1) % A) + 1 = v
             /\ u * A + v \in A .. t * A + (k - 1) <=>
                  (u = 0 /\ v = A) \/ u \in 1 .. t - 1 \/ (u = t /\ v < k)
  <2>1. PICK x \in Nat : x = u * A
    OBVIOUS
  <2>2. PICK w \in 0 .. A - 1 : w = v - 1
    OBVIOUS
  <2>3. (u * A + w) \div A = u /\ (u * A + w) % A = w
    BY Division
  <2>4. u * A + v - 1 = u * A + w /\ w + 1 = v
    BY <2>2
  <2>5. (0 < u => A <= x) /\ (u = 0 => x = 0)
    <3>1. 0 < u => 0 * A + A <= u * A /\ 0 * A = 0
      BY <1>3
    <3>2. 0 * A = 0
      OBVIOUS
    <3> QED BY <2>1, <3>1, <3>2
  <2>6. (u < t => x + A <= y) /\ (t < u => y + A <= x) /\ (u = t => x = y)
    BY <1>1, <1>3, <2>1
  <2>7. x + v \in A .. y + (k - 1) <=>
          (u = 0 /\ v = A) \/ u \in 1 .. t - 1 \/ (u = t /\ v < k)
    <3>1. CASE u = 0
      BY <2>5, <2>6, <3>1
    <3>2. CASE u \in 1 .. t - 1
      BY <2>5, <2>6, <3>2
    <3>3. CASE u = t
      BY <2>5, <2>6, <3>3
    <3>4. CASE t < u
      BY <2>5, <2>6, <3>4
    <3> QED BY <3>1, <3>2, <3>3, <3>4
  <2> QED BY <1>1, <2>1, <2>3, <2>4, <2>7
<1> QED BY <1>1, <1>2, <1>4

LEMMA MaskIs ==
  ASSUME NEW dones, NEW n \in Nat, Len(dones) = n + 1, NEW A \in Nat \ {0}, NEW c,
         NEW t \in 1 .. n, NEW k \in 1 .. A, NEW d, \A u \in 0 .. t : d[u] = dones[u + 1][c]
  PROVE  compute_loss_mask(dones, A, c, t, k) = DonesBefore(d, A, t, k)
<1> DEFINE cell(u, v) == <<dones[u + 1][c], v>>
<1>1. PICK y \in Nat : y = t * A
  BY SubSteps
<1>2. PICK z \in Nat : z = Len(dones) * A /\ y + A <= z
  <2>1. PICK x \in Nat : Len(dones) = t + 1 + x
    <3>1. n - t \in Nat /\ n + 1 = t + 1 + (n - t)
      OBVIOUS
    <3> QED BY <3>1
  <2>2. (t + 1 + x) * A = t * A + A + x * A /\ x * A \in Nat
    OBVIOUS
  <2> QED BY <1>1, <2>1, <2>2
<1>3. PICK f : f = [i \in 1 .. z |-> cell((i - 1) \div A, ((i - 1) % A) + 1)]
  OBVIOUS
<1>4. compute_loss_mask(dones, A, c, t, k) = {f[i] : i \in A .. y + (k - 1)}
  <2>1. A + (t - 1) * A + k - 1 = y + (k - 1)
    BY <1>1, SubSteps
  <2> QED BY <1>2, <1>3, <2>1 DEF compute_loss_mask
<1>5. \A x : x \in DonesBefore(d, A, t, k) <=>
        \/ x = cell(0, A)
        \/ \E u \in 1 .. t - 1 : \E v \in 1 .. A : x = cell(u, v)
        \/ \E v \in 1 .. k - 1 : x = cell(t, v)
  <2>1. \A x : x \in DonesBefore(d, A, t, k) <=>
          \/ x = <<d[0], A>>
          \/ \E u \in 1 .. t - 1 : \E v \in 1 .. A : x = <<d[u], v>>
          \/ \E v \in 1 .. k - 1 : x = <<d[t], v>>
    BY DEF DonesBefore
  <2>2. 0 \in 0 .. t /\ t \in 0 .. t /\ \A u \in 1 .. t - 1 : u \in 0 .. t
    OBVIOUS
  <2> QED BY <2>1, <2>2
<1> HIDE DEF cell
<1>6. ASSUME NEW u \in Nat, NEW v \in 1 .. A, (u = 0 /\ v = A) \/ u \in 1 .. t - 1 \/ (u = t /\ v < k)
      PROVE  \E i \in A .. y + (k - 1) : f[i] = cell(u, v)
  <2>1. PICK i \in Nat : i = u * A + v /\ i \in A .. y + (k - 1) /\ (i - 1) \div A = u /\ ((i - 1) % A) + 1 = v
    BY <1>1, <1>6, SubSteps
  <2>2. i \in 1 .. z
    BY <1>2, <2>1
  <2> QED BY <1>3, <2>1, <2>2
<1>7. ASSUME NEW i \in A .. y + (k - 1)
      PROVE  \E u \in Nat : \E v \in 1 .. A :
               /\ f[i] = cell(u, v)
               /\ (u = 0 /\ v = A) \/ u \in 1 .. t - 1 \/ (u = t /\ v < k)
  <2>1. i \in 1 .. z /\ i - 1 \in Nat
    BY <1>2
  <2>2. PICK u \in Nat, w \in 0 .. A - 1 : u = (i - 1) \div A /\ w = (i - 1) % A /\ i - 1 = u * A + w
    BY <2>1, DivisionIs
  <2>3. PICK v \in 1 .. A : v = w + 1
    OBVIOUS
  <2>4. i = u * A + v
    <3>1. PICK x \in Nat : x = u * A
      OBVIOUS
    <3> QED BY <2>1, <2>2, <2>3, <3>1
  <2>5. (u = 0 /\ v = A) \/ u \in 1 .. t - 1 \/ (u = t /\ v < k)
    BY <1>1, <2>4, SubSteps
  <2>6. f[i] = cell(u, v)
    BY <1>3, <2>1, <2>2, <2>3
  <2> QED BY <2>5, <2>6
<1>8. ASSUME NEW x \in {f[i] : i \in A .. y + (k - 1)}
      PROVE  x \in DonesBefore(d, A, t, k)
  <2>1. PICK i \in A .. y + (k - 1) : x = f[i]
    OBVIOUS
  <2>2. PICK u \in Nat, v \in 1 .. A :
          x = cell(u, v) /\ ((u = 0 /\ v = A) \/ u \in 1 .. t - 1 \/ (u = t /\ v < k))
    BY <1>7, <2>1
  <2>3. v < k => v \in 1 .. k - 1
    OBVIOUS
  <2> QED BY <1>5, <2>2, <2>3
<1>9. ASSUME NEW x \in DonesBefore(d, A, t, k)
      PROVE  x \in {f[i] : i \in A .. y + (k - 1)}
  <2>1. \E u \in Nat : \E v \in 1 .. A :
          x = cell(u, v) /\ ((u = 0 /\ v = A) \/ u \in 1 .. t - 1 \/ (u = t /\ v < k))
    <3>1. CASE x = cell(0, A)
      <4>1. 0 \in Nat /\ A \in 1 .. A
        OBVIOUS
      <4> QED BY <3>1, <4>1
    <3>2. CASE \E u \in 1 .. t - 1, v \in 1 .. A : x = cell(u, v)
      BY <3>2
    <3>3. CASE \E v \in 1 .. k - 1 : x = cell(t, v)
      <4>1. PICK v \in 1 .. k - 1 : x = cell(t, v)
        BY <3>3
      <4>2. v \in 1 .. A /\ v < k /\ t \in Nat
        OBVIOUS
      <4> QED BY <4>1, <4>2
    <3> QED BY <1>5, <3>1, <3>2, <3>3
  <2>2. PICK u \in Nat, v \in 1 .. A :
          x = cell(u, v) /\ ((u = 0 /\ v = A) \/ u \in 1 .. t - 1 \/ (u = t /\ v < k))
    BY <2>1
  <2>3. PICK i \in A .. y + (k - 1) : f[i] = x
    BY <1>6, <2>2
  <2> QED BY <2>3
<1> QED BY <1>4, <1>8, <1>9

(* The row and the column of sample i. *)
RowOf(i) == (i - 1) \div AllColumns + 1
ColOf(i) == ((i - 1) % AllColumns) + 1

LEMMA SampleNumbers ==
  /\ rollout_size = n_chunk_steps * AllColumns /\ rollout_size \in Nat \ {0}
  /\ Len(PartEnvs(0, 1)) = Width
<1>1. 0 \in RolloutRanks /\ 1 \in 1 .. Parts
  <2>1. env_num \in Nat \ {0} /\ gather_num \in Nat \ {0} /\ Parts \in Nat \ {0}
    BY PipelineAssumption, SplitNumbers
  <2>2. env_num * gather_num \in Nat \ {0}
    BY <2>1, Multiplied
  <2> QED BY <2>1, <2>2 DEF RolloutRanks
<1>2. Len(PartEnvs(0, 1)) = Width
  BY <1>1, PartEnvsAre
<1>3. PICK C \in Nat \ {0}, E \in Nat \ {0}, K \in Nat \ {0}, W \in Nat \ {0} :
        C = n_chunk_steps /\ E = rollout_epoch /\ K = Share /\ W = Width
  BY ColumnNumbers
<1>4. rollout_size = C * E * K * W /\ AllColumns = E * (K * W)
  BY <1>2, <1>3 DEF rollout_size, AllColumns, EpochColumns
<1>5. C * E * K * W = C * (E * (K * W))
  OBVIOUS
<1>6. n_chunk_steps * AllColumns \in Nat \ {0}
  BY ColumnNumbers, Multiplied
<1> QED BY <1>2, <1>3, <1>4, <1>5, <1>6

LEMMA SamplePlace ==
  ASSUME NEW i \in 1 .. rollout_size
  PROVE  RowOf(i) \in 1 .. n_chunk_steps /\ ColOf(i) \in 1 .. AllColumns
<1>1. PICK C \in Nat \ {0}, N \in Nat \ {0} : C = n_chunk_steps /\ N = AllColumns
  BY ColumnNumbers
<1>2. PICK n \in Nat : n = i - 1 /\ n < C * N
  BY <1>1, SampleNumbers
<1>3. (n \div N) \in 0 .. C - 1 /\ (n % N) \in 0 .. N - 1
  BY <1>2, Below, DivisionIs
<1>4. RowOf(i) = (n \div N) + 1 /\ ColOf(i) = (n % N) + 1
  BY <1>1, <1>2 DEF RowOf, ColOf
<1>5. \A x, y \in Nat : x \in 0 .. y - 1 => x + 1 \in 1 .. y
  OBVIOUS
<1> QED BY <1>1, <1>3, <1>4, <1>5

DonesAt(a, c, t, s, e) == [u \in 0 .. t |-> Cell(a, c, ObsAt(s)[<<e, u + 1>>])]

(* What sample i of rank a is made of, of stage s and epoch e.              *)
SampleHolds(a, i, c, t, s, e) ==
  /\ Sample(a, i).action = Cell(a, c, ActAt(s)[<<e, t>>])
  /\ Sample(a, i).inputs = Cell(a, c, ActAt(s)[<<e, t>>])
  /\ Sample(a, i).value = Cell(a, c, ObsAt(s)[<<e, t>>])
  /\ Sample(a, i).reward = Cell(a, c, NextAt(s)[<<e, t>>])
  /\ Sample(a, i).next_value = Cell(a, c, ObsAt(s)[<<e, t + 1>>])
  /\ Sample(a, i).next_dones = Cell(a, c, ObsAt(s)[<<e, t + 1>>])
  /\ \A k \in 1 .. num_action_chunks :
       Sample(a, i).masked_by[k] = DonesBefore(DonesAt(a, c, t, s, e), num_action_chunks, t, k)

LEMMA SampleIs ==
  ASSUME NEW a, PartsFit(a), NEW i \in 1 .. rollout_size
  PROVE  SampleHolds(a, i, ColOf(i), RowOf(i), PartOf(a, ColOf(i)).stage, EpochOf(ColOf(i)))
<1>1. PICK C \in Nat \ {0}, N \in Nat \ {0}, A \in Nat \ {0} :
        C = n_chunk_steps /\ N = AllColumns /\ A = num_action_chunks
  BY ColumnNumbers, PipelineAssumption
<1>2. PICK c \in 1 .. N, t \in 1 .. C : c = ColOf(i) /\ t = RowOf(i)
  BY <1>1, SamplePlace
<1>3. c = ((i - 1) % N) + 1 /\ t = (i - 1) \div N + 1
  BY <1>1, <1>2 DEF ColOf, RowOf
<1>4. PICK s, e : s = PartOf(a, c).stage /\ e = EpochOf(c)
  OBVIOUS
<1>5. PICK dones, values, rewards, inputs, actions :
        /\ dones = Batch(a, "dones") /\ values = Batch(a, "values") /\ rewards = Batch(a, "rewards")
        /\ inputs = Batch(a, "inputs") /\ actions = Batch(a, "actions")
  OBVIOUS
<1>6. /\ Len(dones) = C + 1
      /\ \A x \in 1 .. C + 1 : Len(dones[x]) = N /\ dones[x][c] = Cell(a, c, ObsAt(s)[<<e, x>>])
  <2>1. "dones" \in Fields /\ Rows("dones") = C + 1 /\ Of("dones", s) = ObsAt(s)
    BY <1>1 DEF Fields, Rows, Of
  <2> QED BY <1>1, <1>4, <1>5, <2>1, BatchIs
<1>7. \A x \in 1 .. C + 1 : Len(values[x]) = N /\ values[x][c] = Cell(a, c, ObsAt(s)[<<e, x>>])
  <2>1. "values" \in Fields /\ Rows("values") = C + 1 /\ Of("values", s) = ObsAt(s)
    BY <1>1 DEF Fields, Rows, Of
  <2> QED BY <1>1, <1>4, <1>5, <2>1, BatchIs
<1>8. \A x \in 1 .. C : Len(rewards[x]) = N /\ rewards[x][c] = Cell(a, c, NextAt(s)[<<e, x>>])
  <2>1. "rewards" \in Fields /\ Rows("rewards") = C /\ Of("rewards", s) = NextAt(s)
    BY <1>1 DEF Fields, Rows, Of
  <2> QED BY <1>1, <1>4, <1>5, <2>1, BatchIs
<1>9. \A x \in 1 .. C : Len(inputs[x]) = N /\ inputs[x][c] = Cell(a, c, ActAt(s)[<<e, x>>])
  <2>1. "inputs" \in Fields /\ Rows("inputs") = C /\ Of("inputs", s) = ActAt(s)
    BY <1>1 DEF Fields, Rows, Of
  <2> QED BY <1>1, <1>4, <1>5, <2>1, BatchIs
<1>10. \A x \in 1 .. C : Len(actions[x]) = N /\ actions[x][c] = Cell(a, c, ActAt(s)[<<e, x>>])
  <2>1. "actions" \in Fields /\ Rows("actions") = C /\ Of("actions", s) = ActAt(s)
    BY <1>1 DEF Fields, Rows, Of
  <2> QED BY <1>1, <1>4, <1>5, <2>1, BatchIs
<1>11. 1 \in 1 .. C /\ 1 \in 1 .. C + 1 /\ t \in 1 .. C + 1 /\ t + 1 \in 1 .. C + 1
  OBVIOUS
<1>12. /\ Len(values[1]) = N /\ Len(rewards[1]) = N /\ Len(inputs[1]) = N /\ Len(actions[1]) = N
  BY <1>7, <1>8, <1>9, <1>10, <1>11
<1>13. \A m : Len(m[1]) = N => process_nested_dict_for_train(m, C, i) = m[t][c]
  BY <1>3 DEF process_nested_dict_for_train
<1>14. PICK mask : mask = [k \in 1 .. A |-> compute_loss_mask(dones, A, c, t, k)]
  OBVIOUS
<1>15. Sample(a, i) = [action |-> actions[t][c], inputs |-> inputs[t][c], value |-> values[t][c],
                       reward |-> rewards[t][c], next_value |-> values[t + 1][c],
                       next_dones |-> dones[t + 1][c], masked_by |-> mask]
  <2>1. /\ process_nested_dict_for_train(actions, C, i) = actions[t][c]
        /\ process_nested_dict_for_train(inputs, C, i) = inputs[t][c]
        /\ process_nested_dict_for_train(values, C, i) = values[t][c]
        /\ process_nested_dict_for_train(rewards, C, i) = rewards[t][c]
    BY <1>12, <1>13
  <2> QED BY <1>1, <1>3, <1>5, <1>12, <1>14, <2>1 DEF Sample
<1>16. PICK d : d = DonesAt(a, c, t, s, e)
  OBVIOUS
<1>17. \A u \in 0 .. t : d[u] = dones[u + 1][c]
  <2>1. \A u \in 0 .. t : u + 1 \in 1 .. C + 1
    OBVIOUS
  <2>2. \A u \in 0 .. t : d[u] = Cell(a, c, ObsAt(s)[<<e, u + 1>>])
    BY <1>16 DEF DonesAt
  <2> QED BY <1>6, <2>1, <2>2
<1>18. \A k \in 1 .. A : compute_loss_mask(dones, A, c, t, k) = DonesBefore(d, A, t, k)
  <2> SUFFICES ASSUME NEW k \in 1 .. A
               PROVE  compute_loss_mask(dones, A, c, t, k) = DonesBefore(d, A, t, k)
    OBVIOUS
  <2>1. C \in Nat /\ A \in Nat \ {0} /\ t \in 1 .. C /\ k \in 1 .. A /\ Len(dones) = C + 1
    BY <1>6
  <2> QED BY <1>17, <2>1, MaskIs, SMTT(60)
<1>19. PICK x : x = Sample(a, i)
  OBVIOUS
<1>20. /\ x.action = Cell(a, c, ActAt(s)[<<e, t>>]) /\ x.inputs = Cell(a, c, ActAt(s)[<<e, t>>])
       /\ x.value = Cell(a, c, ObsAt(s)[<<e, t>>]) /\ x.reward = Cell(a, c, NextAt(s)[<<e, t>>])
       /\ x.next_value = Cell(a, c, ObsAt(s)[<<e, t + 1>>])
       /\ x.next_dones = Cell(a, c, ObsAt(s)[<<e, t + 1>>])
       /\ x.masked_by = mask
  BY <1>6, <1>7, <1>8, <1>9, <1>10, <1>11, <1>15, <1>19
<1>21. \A k \in 1 .. A : mask[k] = DonesBefore(d, A, t, k)
  BY <1>14, <1>18
<1>22. SampleHolds(a, i, c, t, s, e)
  BY <1>1, <1>16, <1>19, <1>20, <1>21 DEF SampleHolds
<1> QED BY <1>2, <1>4, <1>22

LEMMA CellWith ==
  ASSUME NEW a, NEW c, NEW x, NEW y
  PROVE  /\ [Cell(a, c, x) EXCEPT !.of = y] = Cell(a, c, y)
         /\ Cell(a, c, x).of = x /\ Cell(a, c, x).stage = PartOf(a, c).stage
BY DEF Cell

LEMMA SampleIsFit ==
  ASSUME NEW a, PartsFit(a), NEW i \in 1 .. rollout_size
  PROVE  SampleFits(Sample(a, i))
<1>1. PICK C \in Nat \ {0}, N \in Nat \ {0}, A \in Nat \ {0} :
        C = n_chunk_steps /\ N = AllColumns /\ A = num_action_chunks
  BY ColumnNumbers, PipelineAssumption
<1>2. PICK c \in 1 .. N, t \in 1 .. C : c = ColOf(i) /\ t = RowOf(i)
  BY <1>1, SamplePlace
<1>3. PICK s : s = PartOf(a, c).stage
  OBVIOUS
<1>4. PICK e \in Nat \ {0} : e = EpochOf(c)
  <2>1. EpochOf(c) \in 1 .. rollout_epoch
    BY <1>1, ColumnIs
  <2>2. rollout_epoch \in Nat
    BY ColumnNumbers
  <2> QED BY <2>1, <2>2
<1>5. SampleHolds(a, i, c, t, s, e)
  BY <1>2, <1>3, <1>4, SampleIs
<1>6. PICK x : x = Sample(a, i)
  OBVIOUS
<1> DEFINE obs(u) == [run |-> global_step, at |-> [epoch |-> e, step |-> u, stage |-> s]]
<1>7. \A u \in 0 .. t : ObsAt(s)[<<e, u + 1>>] = obs(u)
  <2> SUFFICES ASSUME NEW u \in 0 .. t PROVE ObsAt(s)[<<e, u + 1>>] = obs(u)
    OBVIOUS
  <2>1. e \in Nat /\ u + 1 \in Nat /\ (u + 1) - 1 = u
    OBVIOUS
  <2> QED BY <2>1, ObsEntry
<1>8. PICK o, n : o = obs(t - 1) /\ n = obs(t)
  OBVIOUS
<1>9. ObsAt(s)[<<e, t>>] = o /\ ObsAt(s)[<<e, t + 1>>] = n
  <2>1. t - 1 \in 0 .. t /\ (t - 1) + 1 = t /\ t \in 0 .. t
    OBVIOUS
  <2> QED BY <1>7, <1>8, <2>1
<1>10. NextAt(s)[<<e, t>>] = n
  BY <1>8, NextEntry
<1>11. ActAt(s)[<<e, t>>] = [obs |-> o, policy |-> version]
  BY <1>9, ActEntry
<1>12. Following(o) = n
  <2>1. (t - 1) + 1 = t
    OBVIOUS
  <2> QED BY <1>8, <2>1 DEF Following
<1>13. PICK m : m = [obs |-> o, policy |-> version]
  OBVIOUS
<1>14. /\ x.action = Cell(a, c, m) /\ x.inputs = Cell(a, c, m) /\ x.value = Cell(a, c, o)
       /\ x.reward = Cell(a, c, n) /\ x.next_value = Cell(a, c, n) /\ x.next_dones = Cell(a, c, n)
       /\ \A k \in 1 .. A : x.masked_by[k] = DonesBefore(DonesAt(a, c, t, s, e), A, t, k)
  BY <1>1, <1>5, <1>6, <1>9, <1>10, <1>11, <1>13 DEF SampleHolds
<1>15. /\ x.action.of = m /\ x.action.stage = s
       /\ [x.action EXCEPT !.of = o] = Cell(a, c, o) /\ [x.action EXCEPT !.of = n] = Cell(a, c, n)
  BY <1>3, <1>14, CellWith
<1>16. m.obs = o /\ m.policy = version /\ o.run = global_step /\ o.at.stage = s /\ o.at.step = t - 1
  BY <1>8, <1>13
<1>17. PICK now, next : now = Cell(a, c, o) /\ next = Cell(a, c, n)
  OBVIOUS
<1>18. PICK d : d = DonesAt(a, c, t, s, e)
  OBVIOUS
<1>19. \A u \in 0 .. t : d[u] = Cell(a, c, obs(u))
  BY <1>7, <1>18 DEF DonesAt
<1>20. \A u : [now EXCEPT !.of.at.step = u] = Cell(a, c, obs(u))
  BY <1>8, <1>17 DEF Cell
<1> DEFINE at(u) == [now EXCEPT !.of.at.step = u]
<1>21. d[t] = next /\ d[0] = at(0) /\ \A u \in 1 .. t - 1 : d[u] = at(u)
  <2>1. t \in 0 .. t /\ 0 \in 0 .. t /\ \A u \in 1 .. t - 1 : u \in 0 .. t
    OBVIOUS
  <2>2. next = Cell(a, c, obs(t))
    BY <1>8, <1>17
  <2>3. \A u : at(u) = Cell(a, c, obs(u))
    BY <1>20
  <2> HIDE DEF obs, at
  <2> QED BY <1>19, <2>1, <2>2, <2>3
<1>22. ASSUME NEW k \in 1 .. A
       PROVE  x.masked_by[k] = MaskedBy(now, next, k)
  <2> HIDE DEF obs, at
  <2>1. {<<d[u], v>> : u \in 1 .. t - 1, v \in 1 .. A} = {<<at(u), v>> : u \in 1 .. t - 1, v \in 1 .. A}
    BY <1>21
  <2>2. DonesBefore(d, A, t, k) =
          {<<at(0), A>>} \cup {<<at(u), v>> : u \in 1 .. t - 1, v \in 1 .. A} \cup {<<next, v>> : v \in 1 .. k - 1}
    BY <1>21, <2>1 DEF DonesBefore
  <2>3. x.masked_by[k] = DonesBefore(d, A, t, k)
    BY <1>14, <1>18
  <2>4. now.of.at.step = t - 1
    BY <1>16, <1>17, CellWith
  <2> QED BY <1>1, <2>2, <2>3, <2>4 DEF at, MaskedBy
<1> HIDE DEF obs, at
<1>23. x.action.of.obs = o /\ x.action.of.policy = version /\ o.at.step = t - 1
  BY <1>15, <1>16
<1>24. /\ [x.action EXCEPT !.of = x.action.of.obs] = now
       /\ [x.action EXCEPT !.of = Following(x.action.of.obs)] = next
  BY <1>12, <1>15, <1>17, <1>23
<1>25. \A k \in 1 .. num_action_chunks :
         x.masked_by[k] = MaskedBy([x.action EXCEPT !.of = x.action.of.obs],
                                   [x.action EXCEPT !.of = Following(x.action.of.obs)], k)
  BY <1>1, <1>22, <1>23, <1>24
<1>26. /\ x.action.of.policy = version /\ x.action.of.obs.run = global_step
       /\ x.action.of.obs.at.stage = x.action.stage
  BY <1>15, <1>16, <1>23
<1>27. /\ x.inputs = x.action /\ x.value = [x.action EXCEPT !.of = x.action.of.obs]
       /\ x.reward = [x.action EXCEPT !.of = Following(x.action.of.obs)]
       /\ x.next_dones = [x.action EXCEPT !.of = Following(x.action.of.obs)]
       /\ x.next_value = [x.action EXCEPT !.of = Following(x.action.of.obs)]
  BY <1>14, <1>17, <1>24
<1>28. SampleFits(x)
  BY <1>25, <1>26, <1>27 DEF SampleFits
<1> QED BY <1>6, <1>28

(* What is trained on are the parts of this step.                           *)
LEMMA TrainedParts ==
  ASSUME DataFit, pc = "train", NEW a \in ActorRanks
  PROVE  PartsFit(a)
<1>1. Len(rollout_batch[a]) = Share /\ BatchesFit
  BY DEF DataFit
<1>2. ASSUME NEW q \in 1 .. Share PROVE PartFits(rollout_batch[a][q])
  <2>1. PICK b : b = <<a, q>>
    OBVIOUS
  <2>2. b \in Slots /\ In(b) = rollout_batch[a][q]
    BY <1>1, <2>1, SplitNumbers DEF Slots, In
  <2> QED BY <1>1, <2>2 DEF BatchesFit
<1> QED BY <1>1, <1>2 DEF PartsFit

(* The samples of a training step fit: each has what belongs together, of   *)
(* this step's run and policy.                                              *)
THEOREM PipelineSamplesFit == PipelineSpec => []SamplesFit
<1>1. DataFit => SamplesFit
  <2> SUFFICES ASSUME DataFit, pc = "train", NEW a \in ActorRanks
               PROVE  /\ \A p \in 1 .. Share : LET b == rollout_batch[a][p].rows IN
                           Len(b.dones) = Len(b.values) /\ Len(b.dones) = Len(b.rewards) + rollout_epoch
                      /\ \A i \in 1 .. rollout_size : SampleFits(Sample(a, i))
    BY DEF SamplesFit
  <2>1. PartsFit(a)
    BY TrainedParts
  <2>2. ASSUME NEW p \in 1 .. Share
        PROVE  LET b == rollout_batch[a][p].rows IN
               Len(b.dones) = Len(b.values) /\ Len(b.dones) = Len(b.rewards) + rollout_epoch
    <3>1. PICK b, s : b = rollout_batch[a][p].rows /\ Complete(b, s)
      BY <2>1 DEF PartsFit, PartFits
    <3>2. PICK E \in Nat \ {0}, C \in Nat \ {0} : E = rollout_epoch /\ C = n_chunk_steps
      BY ColumnNumbers
    <3>3. "dones" \in Fields /\ "values" \in Fields /\ "rewards" \in Fields
          /\ Rows("dones") = C + 1 /\ Rows("values") = C + 1 /\ Rows("rewards") = C
      BY <3>2 DEF Fields, Rows
    <3>4. Len(b.dones) = At(E, C + 1, C + 1) /\ Len(b.values) = At(E, C + 1, C + 1) /\ Len(b.rewards) = At(E, C, C)
      <4>1. /\ Grid(b["dones"], C + 1, E, C + 1, Of("dones", s))
            /\ Grid(b["values"], C + 1, E, C + 1, Of("values", s))
            /\ Grid(b["rewards"], C, E, C, Of("rewards", s))
        BY <3>1, <3>2, <3>3, CompleteGrid
      <4> QED BY <4>1 DEF Grid
    <3>5. At(E, C + 1, C + 1) = At(E, C, C) + E
      <4>1. (E - 1) * (C + 1) + (C + 1) = (E - 1) * C + C + E
        OBVIOUS
      <4> QED BY <4>1 DEF At
    <3> QED BY <3>1, <3>2, <3>4, <3>5
  <2> QED BY <2>1, <2>2, SampleIsFit
<1> QED BY <1>1, DataInvariant, PTL

-----------------------------------------------------------------------------
(* Groups.                                                                  *)

Parted(n, d, q, r) == n \div d = q /\ n % d = r
Sums(n, x, m, y)   == n = x * m + y

(* A number given by a multiple of m and a rest, divided by a multiple of m. *)
LEMMA DividedTwice ==
  ASSUME NEW m \in Nat \ {0}, NEW l \in Nat \ {0}, NEW x \in Nat, NEW y \in 0 .. m - 1,
         NEW n \in Nat, Sums(n, x, m, y), NEW d \in Nat \ {0}, Sums(d, l, m, 0),
         NEW q \in Nat, NEW r \in Nat, Parted(x, l, q, r), NEW z \in Nat, Sums(z, r, m, y)
  PROVE  Parted(n, d, q, z)
<1>1. r \in 0 .. l - 1 /\ x = q * l + r
  BY DivisionIs DEF Parted
<1>2. n = x * m + y /\ d = l * m /\ z = r * m + y
  BY DEF Sums
<1>3. z \in 0 .. d - 1
  <2>1. PICK v \in Nat : l = r + 1 + v
    <3>1. l - r - 1 \in Nat /\ l = r + 1 + (l - r - 1)
      BY <1>1
    <3> QED BY <3>1
  <2>2. (r + 1 + v) * m = r * m + m + v * m /\ v * m \in Nat /\ r * m \in Nat
    OBVIOUS
  <2> QED BY <1>2, <2>1, <2>2
<1>4. n = q * d + z
  <2>1. (q * l + r) * m = q * (l * m) + r * m /\ r * m \in Nat /\ q * (l * m) \in Nat
    OBVIOUS
  <2> QED BY <1>1, <1>2, <2>1
<1>5. (q * d + z) \div d = q /\ (q * d + z) % d = z
  BY <1>3, Division
<1> QED BY <1>4, <1>5 DEF Parted

LEMMA Quotient ==
  ASSUME NEW n \in Nat, NEW m \in Nat \ {0}
  PROVE  \E h \in Nat : h = n \div m /\ h * m <= n
<1>1. PICK d \in Nat, r \in 0 .. m - 1 : d = n \div m /\ n = d * m + r
  BY DivisionIs
<1>2. d * m \in Nat
  OBVIOUS
<1> QED BY <1>1, <1>2

(* The columns of a group are those of one part and epoch, and of a         *)
(* group of its environments, one after the other.                          *)
GroupAt(G, g, e, q, z) ==
  \A i \in 1 .. G :
    /\ (g - 1) * G + i \in 1 .. AllColumns
    /\ EpochOf((g - 1) * G + i) = e /\ SlotOf((g - 1) * G + i) = q
    /\ EnvOf((g - 1) * G + i) = z * G + i

LEMMA GroupColumns ==
  ASSUME NEW G \in Nat \ {0}, Width % G = 0, NEW g \in 1 .. AllColumns \div G
  PROVE  \E e \in 1 .. rollout_epoch, q \in 1 .. Share, z \in Nat : GroupAt(G, g, e, q, z)
<1>1. PICK E \in Nat \ {0}, K \in Nat \ {0}, W \in Nat \ {0}, L \in Nat \ {0}, N \in Nat \ {0} :
        E = rollout_epoch /\ K = Share /\ W = Width /\ L = EpochColumns /\ N = AllColumns
  BY ColumnNumbers
<1>2. L = K * W /\ N = E * L
  BY <1>1 DEF EpochColumns, AllColumns
<1>3. PICK w \in Nat \ {0} : W = w * G
  <2>1. (W \div G) \in Nat /\ (W \div G) * G = W
    BY <1>1, Divided
  <2>2. W \div G # 0
    BY <2>1
  <2> QED BY <2>1, <2>2
<1>4. PICK k \in Nat \ {0} : k = K * w /\ L = k * G
  <2>1. K * (w * G) = (K * w) * G
    OBVIOUS
  <2>2. K * w \in Nat \ {0}
    BY Multiplied
  <2> QED BY <1>2, <1>3, <2>1, <2>2
<1>5. PICK x \in Nat : x = g - 1
  <2>1. (N \div G) \in Nat
    BY DivisionIs
  <2> QED BY <1>1, <2>1
<1>6. x * G + G <= N
  <2>1. PICK h \in Nat : h = N \div G /\ h * G <= N
    BY Quotient
  <2>2. PICK v \in Nat : h = x + 1 + v
    <3>1. h - x - 1 \in Nat /\ h = x + 1 + (h - x - 1)
      BY <1>1, <1>5, <2>1
    <3> QED BY <3>1
  <2>3. (x + 1 + v) * G = x * G + G + v * G /\ v * G \in Nat /\ x * G \in Nat
    OBVIOUS
  <2> QED BY <2>1, <2>2, <2>3
<1>7. PICK f \in Nat, j \in Nat : Parted(x, k, f, j)
  <2>1. PICK f \in Nat, j \in 0 .. k - 1 : f = x \div k /\ j = x % k
    BY DivisionIs
  <2> QED BY <2>1 DEF Parted
<1>8. PICK p \in Nat, z \in Nat : Parted(j, w, p, z)
  <2>1. PICK p \in Nat, z \in 0 .. w - 1 : p = j \div w /\ z = j % w
    BY DivisionIs
  <2> QED BY <2>1 DEF Parted
<1>9. ASSUME NEW i \in 1 .. G
      PROVE  /\ x * G + i \in 1 .. N
             /\ EpochOf(x * G + i) = f + 1 /\ SlotOf(x * G + i) = p + 1 /\ EnvOf(x * G + i) = z * G + i
  <2>1. PICK y \in 0 .. G - 1 : y = i - 1
    OBVIOUS
  <2>2. PICK n \in Nat : n = x * G + y /\ n + 1 = x * G + i /\ n = (x * G + i) - 1 /\ x * G + i \in 1 .. N
    <3>1. x * G \in Nat
      OBVIOUS
    <3> QED BY <1>6, <2>1, <3>1
  <2>3. PICK u \in Nat, v \in Nat : u = j * G + y /\ v = z * G + y
    <3>1. j * G \in Nat /\ z * G \in Nat
      OBVIOUS
    <3> QED BY <3>1
  <2>4. Sums(n, x, G, y) /\ Sums(u, j, G, y) /\ Sums(v, z, G, y) /\ Sums(L, k, G, 0) /\ Sums(W, w, G, 0)
    <3>1. k * G \in Nat /\ w * G \in Nat
      OBVIOUS
    <3> QED BY <1>3, <1>4, <2>2, <2>3, <3>1 DEF Sums
  <2>5. Parted(n, L, f, u) /\ Parted(u, W, p, v)
    BY <1>7, <1>8, <2>4, DividedTwice
  <2>6. v + 1 = z * G + i
    <3>1. z * G \in Nat
      OBVIOUS
    <3> QED BY <2>1, <2>3, <3>1
  <2>7. EpochOf(x * G + i) = n \div L + 1 /\ SlotOf(x * G + i) = (n % L) \div W + 1
        /\ EnvOf(x * G + i) = ((n % L) % W) + 1
    BY <1>1, <2>2 DEF EpochOf, SlotOf, EnvOf
  <2> QED BY <2>2, <2>5, <2>6, <2>7 DEF Parted
<1>10. f + 1 \in 1 .. E /\ p + 1 \in 1 .. K
  <2>1. PICK c \in 1 .. N : c = x * G + 1 /\ EpochOf(c) = f + 1 /\ SlotOf(c) = p + 1
    <3>1. 1 \in 1 .. G
      OBVIOUS
    <3> QED BY <1>9, <3>1
  <2> QED BY <1>1, <2>1, ColumnIs
<1>11. PICK e \in 1 .. rollout_epoch, q \in 1 .. Share : e = f + 1 /\ q = p + 1
  BY <1>1, <1>10
<1>12. GroupAt(G, g, e, q, z)
  BY <1>1, <1>5, <1>9, <1>11 DEF GroupAt
<1> QED BY <1>12

(* A part has whole groups of environments if their number allows it.       *)
EnvsInPlace(G, z) == \A i \in 1 .. G : z * G + i \in 1 .. Width
EnvsFrom(r, p, G, z, Q) == \A i \in 1 .. G : PartEnvs(r, p)[z * G + i] = Q * G + i

LEMMA PartGroup ==
  ASSUME NEW r \in RolloutRanks, NEW p \in 1 .. Parts, NEW G \in Nat \ {0}, Width % G = 0, NEW z \in Nat,
         EnvsInPlace(G, z)
  PROVE  \E Q \in Nat : EnvsFrom(r, p, G, z, Q)
<1>1. PICK w \in Nat : Width = w * G
  <2>1. (Width \div G) \in Nat /\ (Width \div G) * G = Width
    BY ColumnNumbers, Divided
  <2> QED BY <2>1
<1>2. PICK m \in Nat : m = r % gather_num
  <2>1. r \in Nat /\ gather_num \in Nat \ {0}
    BY PipelineAssumption DEF RolloutRanks
  <2>2. PICK d \in 0 .. gather_num - 1 : d = r % gather_num
    BY <2>1, DivisionIs
  <2> QED BY <2>2
<1>3. PICK P \in Nat, s \in Nat : P = Parts /\ s = p - 1
  BY SplitNumbers
<1>4. PICK b \in Nat, c \in Nat : b = m * (P * (w * G)) /\ c = s * (w * G)
  <2>1. m * (P * (w * G)) \in Nat /\ s * (w * G) \in Nat
    OBVIOUS
  <2> QED BY <2>1
<1>5. Block(r) = b /\ (p - 1) * Width = c
  BY <1>1, <1>2, <1>3, <1>4 DEF Block
<1>6. PICK Q \in Nat : Q = m * P * w + s * w + z
  <2>1. m * P * w + s * w + z \in Nat
    OBVIOUS
  <2> QED BY <2>1
<1>7. b + c + z * G = Q * G /\ Q * G \in Nat /\ z * G \in Nat
  <2>1. m * (P * (w * G)) + s * (w * G) + z * G = (m * P * w + s * w + z) * G
    OBVIOUS
  <2> QED BY <1>4, <1>6, <2>1
<1>8. ASSUME NEW i \in 1 .. G PROVE PartEnvs(r, p)[z * G + i] = Q * G + i
  <2>1. PICK k \in 1 .. Width : k = z * G + i
    BY DEF EnvsInPlace
  <2>2. PartEnvs(r, p)[k] = b + c + k
    <3>1. PartEnvs(r, p) = [j \in 1 .. Width |-> Block(r) + (p - 1) * Width + j]
      BY PartEnvsAre
    <3> QED BY <1>5, <3>1
  <2>3. b + c + (z * G + i) = Q * G + i
    BY <1>7
  <2> QED BY <2>1, <2>2, <2>3
<1>9. EnvsFrom(r, p, G, z, Q)
  BY <1>8 DEF EnvsFrom
<1> QED BY <1>9

LEMMA ManyDifferent ==
  ASSUME NEW G \in Nat \ {0}, NEW f, \A i, j \in 1 .. G : f[i] = f[j] => i = j
  PROVE  Cardinality({f[i] : i \in 1 .. G}) = G
<1> DEFINE T == {f[i] : i \in 1 .. G}
           b == [i \in 1 .. G |-> f[i]]
<1>1. b \in Injection(1 .. G, T)
  BY DEF Injection, IsInjective
<1>2. b \in Surjection(1 .. G, T)
  BY DEF Surjection
<1>3. IsFiniteSet(1 .. G) /\ Cardinality(1 .. G) = G
  BY RangeSize
<1>4. ExistsBijection(1 .. G, T)
  BY <1>1, <1>2 DEF ExistsBijection, Bijection
<1> QED BY <1>3, <1>4, FS_Bijection

Columns(row, G, g) == {row[(g - 1) * G + i] : i \in 1 .. G}

LEMMA GroupIsColumns ==
  ASSUME NEW row, NEW G, NEW group \in Groups(row, G)
  PROVE  \E g \in 1 .. Len(row) \div G : group = Columns(row, G, g)
<1>1. Groups(row, G) = {Columns(row, G, g) : g \in 1 .. Len(row) \div G}
  BY Zenon DEF Groups, Columns
<1> QED BY <1>1

WholeGroup(group, G) ==
  /\ Cardinality(group) = G
  /\ \A x, y \in group : /\ x.rank = y.rank /\ x.of = y.of
                          /\ (x.env - 1) \div G = (y.env - 1) \div G

(* In the first row of a batch. *)
LEMMA GroupIsWhole ==
  ASSUME NEW a, PartsFit(a), NEW G \in Nat \ {0}, Width % G = 0,
         NEW group \in Groups(Batch(a, "rewards")[1], G)
  PROVE  WholeGroup(group, G)
<1>1. PICK row : row = Batch(a, "rewards")[1]
  OBVIOUS
<1>2. /\ Len(row) = AllColumns
      /\ \A c \in 1 .. AllColumns :
           row[c] = Cell(a, c, NextAt(PartOf(a, c).stage)[<<EpochOf(c), 1>>])
  <2>1. "rewards" \in Fields /\ Rows("rewards") = n_chunk_steps /\ 1 \in 1 .. n_chunk_steps
    BY ColumnNumbers DEF Fields, Rows
  <2>2. \A s : Of("rewards", s) = NextAt(s)
    BY DEF Of
  <2> QED BY <1>1, <2>1, <2>2, BatchIs
<1>3. PICK g \in 1 .. AllColumns \div G : group = Columns(row, G, g)
  BY <1>1, <1>2, GroupIsColumns
<1>4. PICK e \in 1 .. rollout_epoch, q \in 1 .. Share, z \in Nat : GroupAt(G, g, e, q, z)
  BY <1>3, GroupColumns
<1>5. PICK part : part = rollout_batch[a][q] /\ PartFits(part)
  BY DEF PartsFit
<1>6. PICK r \in RolloutRanks, p \in 1 .. Parts : r = part.rank /\ part.envs = PartEnvs(r, p)
  BY <1>5 DEF PartFits
<1>7. EnvsInPlace(G, z)
  <2> SUFFICES ASSUME NEW i \in 1 .. G PROVE z * G + i \in 1 .. Width
    BY DEF EnvsInPlace
  <2>1. PICK c \in 1 .. AllColumns : c = (g - 1) * G + i /\ EnvOf(c) = z * G + i
    BY <1>4 DEF GroupAt
  <2> QED BY <2>1, ColumnIs
<1>8. PICK Q \in Nat : EnvsFrom(r, p, G, z, Q)
  BY <1>7, PartGroup
<1>9. PICK o : o = NextAt(part.stage)[<<e, 1>>]
  OBVIOUS
<1>10. PICK f : f = [i \in 1 .. G |-> row[(g - 1) * G + i]]
  OBVIOUS
<1>11. ASSUME NEW i \in 1 .. G
       PROVE  f[i].rank = r /\ f[i].of = o /\ f[i].env = Q * G + i
  <2>1. PICK c \in 1 .. AllColumns :
           c = (g - 1) * G + i /\ EpochOf(c) = e /\ SlotOf(c) = q /\ EnvOf(c) = z * G + i
    BY <1>4 DEF GroupAt
  <2>2. f[i] = row[c]
    BY <1>10, <2>1
  <2>3. PartOf(a, c) = part
    BY <1>5, <2>1 DEF PartOf
  <2>4. f[i] = Cell(a, c, o)
    BY <1>2, <1>9, <2>1, <2>2, <2>3
  <2>5. part.envs[EnvOf(c)] = Q * G + i
    BY <1>6, <1>8, <2>1 DEF EnvsFrom
  <2> QED BY <1>6, <2>3, <2>4, <2>5 DEF Cell
<1>12. group = {f[i] : i \in 1 .. G}
  BY <1>3, <1>10 DEF Columns
<1>13. PICK h \in Nat : h = Q * G
  OBVIOUS
<1>14. Cardinality(group) = G
  <2>1. \A i, j \in 1 .. G : f[i] = f[j] => i = j
    BY <1>11, <1>13
  <2> QED BY <1>12, <2>1, ManyDifferent
<1>15. ASSUME NEW i \in 1 .. G PROVE (f[i].env - 1) \div G = Q
  <2>1. PICK y \in 0 .. G - 1 : y = i - 1
    OBVIOUS
  <2>2. (Q * G + y) \div G = Q
    BY Division
  <2>3. f[i].env - 1 = Q * G + y
    BY <1>11, <1>13, <2>1
  <2> QED BY <2>2, <2>3
<1>16. ASSUME NEW x \in group, NEW y \in group
       PROVE  x.rank = y.rank /\ x.of = y.of /\ (x.env - 1) \div G = (y.env - 1) \div G
  <2>1. PICK i \in 1 .. G, j \in 1 .. G : x = f[i] /\ y = f[j]
    BY <1>12
  <2> QED BY <1>11, <1>15, <2>1
<1> QED BY <1>14, <1>16 DEF WholeGroup

(* Groups of rewards are whole: the columns compared are one group's.       *)
THEOREM PipelineGroupsWhole == PipelineSpec => []GroupsWhole
<1>1. DataFit => GroupsWhole
  <2> SUFFICES ASSUME DataFit, pc = "train", Len(PartEnvs(0, 1)) % group_size = 0, NEW a \in ActorRanks,
                      NEW group \in Groups(Batch(a, "rewards")[1], group_size)
               PROVE  WholeGroup(group, group_size)
    BY DEF GroupsWhole, GroupsTogether, SameGroup, WholeGroup
  <2>1. PartsFit(a)
    BY TrainedParts
  <2>2. group_size \in Nat \ {0}
    BY PipelineAssumption
  <2>3. Width % group_size = 0
    BY SampleNumbers
  <2> QED BY <2>1, <2>2, <2>3, GroupIsWhole
<1> QED BY <1>1, DataInvariant, PTL

-----------------------------------------------------------------------------
(* Every action has its sample.                                             *)

(* Which action sample i of rank a is of. *)
Which(a, i) ==
  LET c == Sample(a, i).action
  IN  <<c.rank, c.stage, c.env, c.of.obs.at.epoch, c.of.obs.at.step>>

LEMMA WhichIs ==
  ASSUME NEW a, PartsFit(a), NEW i \in 1 .. rollout_size
  PROVE  LET c == ColOf(i) IN
         Which(a, i) = <<PartOf(a, c).rank, PartOf(a, c).stage, PartOf(a, c).envs[EnvOf(c)],
                         EpochOf(c), RowOf(i) - 1>>
<1>1. PICK c \in 1 .. AllColumns, t \in 1 .. n_chunk_steps : c = ColOf(i) /\ t = RowOf(i)
  BY SamplePlace
<1>2. PICK part : part = PartOf(a, c)
  OBVIOUS
<1>3. PICK e \in Nat : e = EpochOf(c)
  <2>1. EpochOf(c) \in 1 .. rollout_epoch
    BY ColumnIs
  <2> QED BY <2>1, ColumnNumbers
<1>4. SampleHolds(a, i, c, t, part.stage, e)
  BY <1>1, <1>2, <1>3, SampleIs
<1>5. PICK x : x = Sample(a, i).action
  OBVIOUS
<1>6. t \in Nat
  BY ColumnNumbers
<1>7. /\ x.of = ActAt(part.stage)[<<e, t>>]
      /\ x.rank = part.rank /\ x.stage = part.stage /\ x.env = part.envs[EnvOf(c)]
  BY <1>2, <1>4, <1>5 DEF SampleHolds, Cell
<1>8. x.of.obs = ObsAt(part.stage)[<<e, t>>]
  <2>1. ActAt(part.stage)[<<e, t>>] = [obs |-> ObsAt(part.stage)[<<e, t>>], policy |-> version]
    BY <1>6, ActEntry
  <2> QED BY <1>7, <2>1
<1>9. x.of.obs.at.epoch = e /\ x.of.obs.at.step = t - 1
  <2>1. ObsAt(part.stage)[<<e, t>>] =
          [run |-> global_step, at |-> [epoch |-> e, step |-> t - 1, stage |-> part.stage]]
    BY <1>6, ObsEntry
  <2> QED BY <1>8, <2>1
<1>10. Which(a, i) = <<x.rank, x.stage, x.env, x.of.obs.at.epoch, x.of.obs.at.step>>
  BY <1>5 DEF Which
<1>11. Which(a, i) = <<part.rank, part.stage, part.envs[EnvOf(c)], e, t - 1>>
  BY <1>7, <1>9, <1>10
<1> QED BY <1>1, <1>2, <1>3, <1>11

(* Every place of a batch is that of a sample. *)
LEMMA PlaceHasSample ==
  ASSUME NEW e \in 1 .. rollout_epoch, NEW q \in 1 .. Share, NEW k \in 1 .. Width,
         NEW u \in 0 .. n_chunk_steps - 1
  PROVE  \E i \in 1 .. rollout_size :
           /\ RowOf(i) - 1 = u
           /\ EpochOf(ColOf(i)) = e /\ SlotOf(ColOf(i)) = q /\ EnvOf(ColOf(i)) = k
<1>1. PICK C \in Nat \ {0}, E \in Nat \ {0}, K \in Nat \ {0}, W \in Nat \ {0}, L \in Nat \ {0}, N \in Nat \ {0} :
        /\ C = n_chunk_steps /\ E = rollout_epoch /\ K = Share /\ W = Width
        /\ L = EpochColumns /\ N = AllColumns
  BY ColumnNumbers
<1>2. L = K * W /\ N = E * L
  BY <1>1 DEF EpochColumns, AllColumns
<1>3. ASSUME NEW x \in Nat, NEW m \in Nat \ {0}, NEW d \in Nat, d < x, NEW r \in 0 .. m - 1
      PROVE  d * m + r \in 0 .. x * m - 1 /\ x * m \in Nat
  <2>1. PICK v \in Nat : x = d + 1 + v
    <3>1. x - d - 1 \in Nat /\ x = d + 1 + (x - d - 1)
      BY <1>3
    <3> QED BY <3>1
  <2>2. (d + 1 + v) * m = d * m + m + v * m /\ v * m \in Nat /\ d * m \in Nat
    OBVIOUS
  <2> QED BY <2>1, <2>2
<1>4. PICK o \in Nat, p \in Nat, y \in 0 .. W - 1 :
        o = e - 1 /\ o < E /\ p = q - 1 /\ p < K /\ y = k - 1
  BY <1>1
<1>5. PICK j \in 0 .. L - 1 : j = p * W + y
  BY <1>2, <1>3, <1>4
<1>6. PICK n \in 0 .. N - 1 : n = o * L + j
  BY <1>2, <1>3, <1>4
<1>7. PICK z \in 0 .. C * N - 1 : z = u * N + n /\ C * N \in Nat
  <2>1. u \in Nat /\ u < C
    BY <1>1
  <2> QED BY <1>3, <2>1
<1>8. (p * W + y) \div W = p /\ (p * W + y) % W = y
  BY Division
<1>9. (o * L + j) \div L = o /\ (o * L + j) % L = j
  BY Division
<1>10. (u * N + n) \div N = u /\ (u * N + n) % N = n
  <2>1. u \in Nat
    BY <1>1
  <2> QED BY <2>1, Division
<1>11. PICK i \in 1 .. rollout_size : i - 1 = z
  <2>1. rollout_size = C * N
    BY <1>1, SampleNumbers
  <2>2. z + 1 \in 1 .. C * N /\ (z + 1) - 1 = z
    BY <1>7
  <2> QED BY <2>1, <2>2
<1>12. RowOf(i) = u + 1 /\ ColOf(i) = n + 1
  BY <1>1, <1>7, <1>10, <1>11 DEF RowOf, ColOf
<1>13. EpochOf(n + 1) = o + 1 /\ SlotOf(n + 1) = p + 1 /\ EnvOf(n + 1) = y + 1
  <2>1. (n + 1) - 1 = n
    OBVIOUS
  <2> QED BY <1>1, <1>5, <1>6, <1>8, <1>9, <2>1 DEF EpochOf, SlotOf, EnvOf
<1>14. (u + 1) - 1 = u /\ o + 1 = e /\ p + 1 = q /\ y + 1 = k
  BY <1>1, <1>4
<1> QED BY <1>11, <1>12, <1>13, <1>14

(* The samples of a training step, and the actions it should have.          *)
Samples == ActorRanks \X (1 .. rollout_size)
Wanted  == RolloutRanks \X Stages \X (1 .. num_envs) \X (1 .. rollout_epoch) \X (0 .. n_chunk_steps - 1)
OfAPart(w) == \E p \in 1 .. Parts : w[3] \in Elems(PartEnvs(w[1], p))

LEMMA SamplesAreWanted ==
  ASSUME NEW a \in ActorRanks, PartsFit(a), NEW i \in 1 .. rollout_size
  PROVE  Which(a, i) \in Wanted /\ OfAPart(Which(a, i))
<1>1. PICK c \in 1 .. AllColumns, t \in 1 .. n_chunk_steps : c = ColOf(i) /\ t = RowOf(i)
  BY SamplePlace
<1>2. PICK e \in 1 .. rollout_epoch, q \in 1 .. Share, k \in 1 .. Width :
        e = EpochOf(c) /\ q = SlotOf(c) /\ k = EnvOf(c)
  BY ColumnIs
<1>3. PICK part : part = PartOf(a, c) /\ PartFits(part)
  BY <1>2 DEF PartOf, PartsFit
<1>4. PICK r \in RolloutRanks, s \in Stages, p \in 1 .. Parts :
        r = part.rank /\ s = part.stage /\ part.envs = PartEnvs(r, p)
  BY <1>3 DEF PartFits
<1>5. PICK w : w = Which(a, i)
  OBVIOUS
<1>6. w = <<r, s, PartEnvs(r, p)[k], e, t - 1>>
  BY <1>1, <1>2, <1>3, <1>4, <1>5, WhichIs
<1>7. PICK n \in 1 .. num_envs : n = PartEnvs(r, p)[k] /\ n \in Elems(PartEnvs(r, p))
  <2>1. PartEnvs(r, p) \in Seq(Nat) /\ Len(PartEnvs(r, p)) = Width /\ PartEnvs(r, p)[k] \in 1 .. num_envs
    BY PartEnvsAre
  <2>2. k \in DOMAIN PartEnvs(r, p)
    BY <2>1
  <2> QED BY <2>1, <2>2 DEF Elems
<1>8. t - 1 \in 0 .. n_chunk_steps - 1
  BY ColumnNumbers
<1>9. w \in Wanted
  BY <1>6, <1>7, <1>8 DEF Wanted
<1>10. w[1] = r /\ w[3] = n
  BY <1>6, <1>7
<1>11. OfAPart(w)
  BY <1>7, <1>10 DEF OfAPart
<1> QED BY <1>5, <1>9, <1>11

LEMMA WantedAreSamples ==
  ASSUME BatchesFit, \A a \in ActorRanks : PartsFit(a), NEW w \in Wanted, OfAPart(w)
  PROVE  \E a \in ActorRanks : \E i \in 1 .. rollout_size : w = Which(a, i)
<1>1. PICK r \in RolloutRanks, s \in Stages, n \in 1 .. num_envs, e \in 1 .. rollout_epoch,
           u \in 0 .. n_chunk_steps - 1 : w = <<r, s, n, e, u>>
  BY DEF Wanted
<1>2. w[1] = r /\ w[3] = n
  BY <1>1
<1>3. PICK p \in 1 .. Parts : n \in Elems(PartEnvs(r, p))
  BY <1>2 DEF OfAPart
<1>4. PICK k \in 1 .. Width : n = PartEnvs(r, p)[k]
  <2>1. PartEnvs(r, p) \in Seq(Nat) /\ Len(PartEnvs(r, p)) = Width
    BY PartEnvsAre
  <2> QED BY <1>3, <2>1 DEF Elems
<1>5. \A a \in ActorRanks : Len(rollout_batch[a]) = Share
  BY DEF PartsFit
<1>6. PICK x \in Slots : Id(In(x)) = <<r, s, PartEnvs(r, p)>>
  BY <1>5, NoneMissing
<1>7. PICK a \in ActorRanks, q \in 1 .. Share : x = <<a, q>>
  BY DEF Slots
<1>8. PICK part : part = rollout_batch[a][q]
  OBVIOUS
<1>9. part.rank = r /\ part.stage = s /\ part.envs = PartEnvs(r, p)
  BY <1>6, <1>7, <1>8 DEF In, Id
<1>10. PICK i \in 1 .. rollout_size :
           /\ RowOf(i) - 1 = u
           /\ EpochOf(ColOf(i)) = e /\ SlotOf(ColOf(i)) = q /\ EnvOf(ColOf(i)) = k
  BY PlaceHasSample
<1>11. PartOf(a, ColOf(i)) = part
  BY <1>8, <1>10 DEF PartOf
<1>12. Which(a, i) = <<r, s, PartEnvs(r, p)[k], e, u>>
  BY <1>9, <1>10, <1>11, WhichIs
<1> QED BY <1>1, <1>4, <1>12

-----------------------------------------------------------------------------
LEMMA WantedSize ==
  /\ IsFiniteSet(Wanted)
  /\ Cardinality(Wanted) =
       Cardinality(RolloutRanks) * (stage_num * (num_envs * (rollout_epoch * n_chunk_steps)))
<1>1. PICK A, B, C, D, E :
        /\ A = RolloutRanks /\ B = Stages /\ C = 1 .. num_envs /\ D = 1 .. rollout_epoch
        /\ E = 0 .. n_chunk_steps - 1
  OBVIOUS
<1>2. /\ env_num \in Nat \ {0} /\ gather_num \in Nat \ {0} /\ stage_num \in Nat \ {0}
      /\ num_envs \in Nat \ {0} /\ rollout_epoch \in Nat \ {0} /\ n_chunk_steps \in Nat \ {0}
  BY PipelineAssumption, StageAssumption
<1>3. IsFiniteSet(A)
  <2>1. PICK n \in Nat \ {0} : n = env_num * gather_num
    BY <1>2, Multiplied
  <2> QED BY <1>1, <2>1, RangeSize DEF RolloutRanks
<1>4. /\ IsFiniteSet(B) /\ Cardinality(B) = stage_num
      /\ IsFiniteSet(C) /\ Cardinality(C) = num_envs
      /\ IsFiniteSet(D) /\ Cardinality(D) = rollout_epoch
      /\ IsFiniteSet(E) /\ Cardinality(E) = n_chunk_steps
  BY <1>1, <1>2, RangeSize DEF Stages
<1>5. IsFiniteSet(D \X E) /\ Cardinality(D \X E) = rollout_epoch * n_chunk_steps
  BY <1>4, FS_Product
<1>6. IsFiniteSet(C \X (D \X E)) /\ Cardinality(C \X (D \X E)) = num_envs * (rollout_epoch * n_chunk_steps)
  BY <1>4, <1>5, FS_Product
<1>7. /\ IsFiniteSet(B \X (C \X (D \X E)))
      /\ Cardinality(B \X (C \X (D \X E))) = stage_num * (num_envs * (rollout_epoch * n_chunk_steps))
  BY <1>4, <1>6, FS_Product
<1>8. /\ IsFiniteSet(A \X (B \X (C \X (D \X E))))
      /\ Cardinality(A \X (B \X (C \X (D \X E)))) =
           Cardinality(A) * (stage_num * (num_envs * (rollout_epoch * n_chunk_steps)))
  <2>1. PICK F : F = B \X (C \X (D \X E))
    OBVIOUS
  <2>2. IsFiniteSet(A \X F) /\ Cardinality(A \X F) = Cardinality(A) * Cardinality(F)
    BY <1>3, <1>7, <2>1, FS_Product
  <2> QED BY <1>7, <2>1, <2>2
<1> DEFINE T == A \X B \X C \X D \X E
           S == A \X (B \X (C \X (D \X E)))
           f == [x \in S |-> <<x[1], x[2][1], x[2][2][1], x[2][2][2][1], x[2][2][2][2]>>]
<1>9. ASSUME NEW x \in S
      PROVE  \E a \in A, b \in B, c \in C, d \in D, e \in E :
               x = <<a, <<b, <<c, <<d, e>>>>>>>> /\ f[x] = <<a, b, c, d, e>>
  <2>1. PICK a \in A, y \in B \X (C \X (D \X E)) : x = <<a, y>>
    OBVIOUS
  <2>2. PICK b \in B, z \in C \X (D \X E) : y = <<b, z>>
    OBVIOUS
  <2>3. PICK c \in C, v \in D \X E : z = <<c, v>>
    OBVIOUS
  <2>4. PICK d \in D, e \in E : v = <<d, e>>
    OBVIOUS
  <2>5. x[1] = a /\ x[2] = y /\ y[1] = b /\ y[2] = z /\ z[1] = c /\ z[2] = v /\ v[1] = d /\ v[2] = e
    BY <2>1, <2>2, <2>3, <2>4
  <2>6. f[x] = <<a, b, c, d, e>>
    BY <2>5
  <2> QED BY <2>1, <2>2, <2>3, <2>4, <2>6
<1>10. f \in [S -> T]
  <2>1. \A x \in S : f[x] \in T
    BY <1>9
  <2> QED BY <2>1
<1>11. ASSUME NEW x \in S, NEW y \in S, f[x] = f[y] PROVE x = y
  BY <1>9, <1>11
<1>12. ASSUME NEW t \in T PROVE \E x \in S : f[x] = t
  <2>1. PICK a \in A, b \in B, c \in C, d \in D, e \in E : t = <<a, b, c, d, e>>
    OBVIOUS
  <2>2. PICK v \in D \X E : v = <<d, e>>
    OBVIOUS
  <2>3. PICK z \in C \X (D \X E) : z = <<c, v>>
    OBVIOUS
  <2>4. PICK y \in B \X (C \X (D \X E)) : y = <<b, z>>
    OBVIOUS
  <2>5. PICK x \in S : x = <<a, y>>
    OBVIOUS
  <2>6. x[1] = a /\ x[2] = y /\ y[1] = b /\ y[2] = z /\ z[1] = c /\ z[2] = v /\ v[1] = d /\ v[2] = e
    BY <2>2, <2>3, <2>4, <2>5
  <2>7. f[x] = <<a, b, c, d, e>>
    BY <2>6
  <2> QED BY <2>1, <2>7
<1> HIDE DEF f, S, T
<1>13. f \in Bijection(S, T)
  BY <1>10, <1>11, <1>12 DEF Bijection, Injection, Surjection, IsInjective
<1>14. ExistsBijection(S, T)
  BY <1>13 DEF ExistsBijection
<1>15. IsFiniteSet(T) /\ Cardinality(T) = Cardinality(S)
  BY <1>8, <1>14, FS_Bijection DEF S
<1>16. T = Wanted
  BY <1>1 DEF T, Wanted
<1> QED BY <1>1, <1>8, <1>15, <1>16 DEF S

LEMMA AsManySamples == Cardinality(Samples) * gather_num = Cardinality(Wanted)
<1>1. PICK A \in Nat, C \in Nat, E \in Nat, K \in Nat, W \in Nat, G \in Nat, P \in Nat, S \in Nat, N \in Nat :
        /\ A = actor_num /\ C = n_chunk_steps /\ E = rollout_epoch /\ K = Share /\ W = Width
        /\ G = gather_num /\ P = Parts /\ S = stage_num /\ N = num_envs
  BY ColumnNumbers, SplitNumbers, PipelineAssumption, CheckpointAssumption, StageAssumption
<1>2. PICK R \in Nat \ {0} : R = env_num * gather_num
  BY PipelineAssumption, CheckpointAssumption, Multiplied
<1>3. Cardinality(RolloutRanks) = R
  BY <1>2, RangeSize DEF RolloutRanks
<1>4. Cardinality(Wanted) = R * (S * (N * (E * C)))
  BY <1>1, <1>3, WantedSize
<1>5. PICK q \in Nat \ {0} : q = rollout_size
  BY SampleNumbers
<1>6. Cardinality(Samples) = A * q
  <2>1. /\ IsFiniteSet(ActorRanks) /\ Cardinality(ActorRanks) = A
        /\ IsFiniteSet(1 .. q) /\ Cardinality(1 .. q) = q
    BY <1>1, RangeSize, PipelineAssumption, CheckpointAssumption DEF ActorRanks
  <2> QED BY <1>5, <2>1, FS_Product DEF Samples
<1>7. q = C * (E * (K * W))
  BY <1>1, <1>5, SampleNumbers DEF AllColumns, EpochColumns
<1>8. A * K = (R * S) * P
  BY <1>1, <1>2, SplitNumbers DEF send_num
<1>9. G * (P * W) = N
  BY <1>1, WidthIs
<1>10. (A * (C * (E * (K * W)))) * G = (A * K) * (C * (E * (W * G)))
  OBVIOUS
<1>11. ((R * S) * P) * (C * (E * (W * G))) = R * (S * ((G * (P * W)) * (E * C)))
  OBVIOUS
<1>12. (A * K) * (C * (E * (W * G))) = ((R * S) * P) * (C * (E * (W * G)))
  BY <1>8
<1>13. R * (S * ((G * (P * W)) * (E * C))) = R * (S * (N * (E * C)))
  BY <1>9
<1>14. (A * q) * G = R * (S * (N * (E * C)))
  BY <1>7, <1>10, <1>11, <1>12, <1>13
<1> QED BY <1>1, <1>4, <1>6, <1>14

(* The actor trains on every action of every environment, stage and epoch,  *)
(* on each once, and nothing is left over for the next step.                *)
THEOREM PipelineBatchComplete == PipelineSpec => []BatchComplete
<1>1. DataFit => BatchComplete
  <2> SUFFICES ASSUME DataFit, pc = "train" PROVE BatchComplete
    BY DEF BatchComplete
  <2>1. actor_channel = <<>> /\ BatchesFit
    BY DEF DataFit
  <2>2. \A a \in ActorRanks : PartsFit(a)
    BY TrainedParts
  <2> DEFINE which(x) == LET c == Sample(x[1], x[2]).action
                         IN  <<c.rank, c.stage, c.env, c.of.obs.at.epoch, c.of.obs.at.step>>
  <2>3. \A x : which(x) = Which(x[1], x[2])
    BY DEF Which
  <2> HIDE DEF which
  <2>4. {which(x) : x \in Samples} = {w \in Wanted : OfAPart(w)}
    <3>1. ASSUME NEW x \in Samples PROVE which(x) \in Wanted /\ OfAPart(which(x))
      <4>1. x[1] \in ActorRanks /\ x[2] \in 1 .. rollout_size
        BY DEF Samples
      <4>2. Which(x[1], x[2]) \in Wanted /\ OfAPart(Which(x[1], x[2]))
        BY <2>2, <4>1, SamplesAreWanted
      <4> QED BY <2>3, <4>2
    <3>2. ASSUME NEW w \in Wanted, OfAPart(w) PROVE \E x \in Samples : w = which(x)
      <4>1. PICK a \in ActorRanks, i \in 1 .. rollout_size : w = Which(a, i)
        BY <2>1, <2>2, <3>2, WantedAreSamples
      <4>2. PICK x \in Samples : x = <<a, i>>
        BY DEF Samples
      <4>3. x[1] = a /\ x[2] = i
        BY <4>2
      <4> QED BY <2>3, <4>1, <4>3
    <3> QED BY <3>1, <3>2
  <2> USE DEF which
  <2>5. /\ actor_channel = <<>>
        /\ {which(x) : x \in ActorRanks \X (1 .. rollout_size)} =
             {w \in Wanted : \E p \in 1 .. Parts : w[3] \in Elems(PartEnvs(w[1], p))}
        /\ Cardinality(ActorRanks \X (1 .. rollout_size)) * gather_num = Cardinality(Wanted)
    BY <2>1, <2>4, AsManySamples, Zenon DEF Samples, OfAPart
  <2> QED BY <2>5, Zenon DEF BatchComplete, Wanted
<1> QED BY <1>1, DataInvariant, PTL

=============================================================================
